---------------------------- MODULE Spec2Model ----------------------------
(***************************************************************************)
(* Model of the apk-builder-actions customization scripts.                 *)
(*                                                                         *)
(* Text is modelled at character level: a Python str is a sequence of      *)
(* one-character strings, so that str.replace, str.split, re.sub and       *)
(* str.lower are computed as the scripts compute them.                     *)
(***************************************************************************)
EXTENDS Naturals, Sequences, FiniteSets

(***************************************************************************)
(* Bounds of the model (not program constants).                            *)
(***************************************************************************)
\* Number of pieces the body of an enumerated host name is made of.
MaxPieces == 3

\* Number of times customize-project.py is run on the same project.
MaxRuns == 2

(***************************************************************************)
(* Characters and string primitives (Python str semantics).                *)
(***************************************************************************)
LowerChars ==
    {"a","b","c","d","e","f","g","h","i","j","k","l","m",
     "n","o","p","q","r","s","t","u","v","w","x","y","z"}

UpperChars ==
    {"A","B","C","D","E","F","G","H","I","J","K","L","M",
     "N","O","P","Q","R","S","T","U","V","W","X","Y","Z"}

DigitChars == {"0","1","2","3","4","5","6","7","8","9"}

\* str.isdigit() on one character (ASCII inputs).
IsDigit(c) == c \in DigitChars

\* The class [a-zA-Z0-9_] of the regular expressions.
IsWordChar(c) == c \in LowerChars \cup UpperChars \cup DigitChars \cup {"_"}

\* The class \s of the regular expressions.
IsSpace(c) == c \in {" ", "\t", "\n", "\r"}

\* str.lower() on one character.
LowerChar(c) ==
    CASE c = "A" -> "a" [] c = "B" -> "b" [] c = "C" -> "c" [] c = "D" -> "d"
      [] c = "E" -> "e" [] c = "F" -> "f" [] c = "G" -> "g" [] c = "H" -> "h"
      [] c = "I" -> "i" [] c = "J" -> "j" [] c = "K" -> "k" [] c = "L" -> "l"
      [] c = "M" -> "m" [] c = "N" -> "n" [] c = "O" -> "o" [] c = "P" -> "p"
      [] c = "Q" -> "q" [] c = "R" -> "r" [] c = "S" -> "s" [] c = "T" -> "t"
      [] c = "U" -> "u" [] c = "V" -> "v" [] c = "W" -> "w" [] c = "X" -> "x"
      [] c = "Y" -> "y" [] c = "Z" -> "z" [] OTHER -> c

\* str.lower()
LowerStr(s) == [i \in 1..Len(s) |-> LowerChar(s[i])]

\* str.startswith(p)
StartsWith(s, p) == Len(p) <= Len(s) /\ SubSeq(s, 1, Len(p)) = p

\* s[n:]
Drop(s, n) == SubSeq(s, n + 1, Len(s))

\* min(S) of a non-empty set of numbers.
MinOf(S) == CHOOSE x \in S : \A y \in S : x <= y

\* The positions of s at which the non-empty text sub occurs.
Occurrences(s, sub) ==
    {i \in 1..(Len(s) + 1 - Len(sub)) :
        s[i] = sub[1] /\ SubSeq(s, i, i + Len(sub) - 1) = sub}

\* str.replace(old, new): every non-overlapping occurrence, left to right.
RECURSIVE Replace(_, _, _)
Replace(s, old, new) ==
    LET occ == Occurrences(s, old)
    IN  IF occ = {} THEN s
        ELSE LET i == MinOf(occ)
             IN  SubSeq(s, 1, i - 1) \o new
                     \o Replace(Drop(s, i - 1 + Len(old)), old, new)

\* `sub in s`
Contains(s, sub) == Occurrences(s, sub) # {}

\* Number of characters of s before the first one of cs; Len(s) + 1 when
\* none of cs occurs in s.
IndexOfAny(s, cs) ==
    LET hits == {i \in 1..Len(s) : s[i] \in cs}
    IN  IF hits = {} THEN Len(s) + 1 ELSE MinOf(hits) - 1

\* The text before the first character of cs (all of s when there is none).
BeforeAny(s, cs) ==
    LET k == IndexOfAny(s, cs)
    IN  IF k > Len(s) THEN s ELSE SubSeq(s, 1, k)

\* s.split(c)[0]: the text before the first occurrence of the character c.
Before(s, c) == BeforeAny(s, {c})

\* s.split(c): the list of fields, empty fields included.
RECURSIVE Split(_, _)
Split(s, c) ==
    LET first == Before(s, c)
    IN  IF Len(first) = Len(s) THEN <<first>>
        ELSE <<first>> \o Split(Drop(s, Len(first) + 1), c)

\* reversed(list)
Reverse(l) == [i \in 1..Len(l) |-> l[Len(l) + 1 - i]]

\* sep.join(list)
RECURSIVE Join(_, _)
Join(l, sep) ==
    IF l = <<>> THEN <<>>
    ELSE IF Len(l) = 1 THEN l[1]
    ELSE l[1] \o sep \o Join(Tail(l), sep)

NonEmptyStr(p) == p # <<>>

(***************************************************************************)
(* String constants of customize-project.py.                               *)
(***************************************************************************)
S_https == <<"h","t","t","p","s",":","/","/">>
S_http == <<"h","t","t","p",":","/","/">>
S_www == <<"w","w","w",".">>
S_com == <<"c","o","m">>
S_webapp == <<"w","e","b","a","p","p">>
S_com_dot == <<"c","o","m",".">>
S_default_package == <<"c","o","m",".","w","e","b","a","p","p",".","g","e","n","e","r","a","t","e","d">>

(***************************************************************************)
(* generate_package_name (customize-project.py lines 30-56).               *)
(***************************************************************************)
\* Lines 32-33: scheme strings and 'www.' replaced everywhere, then the text
\* before the first '/', of that the text before the first '?', of that the
\* text before the first ':'.
CleanHost(host) ==
    LET stripped == Replace(Replace(Replace(host, S_https, <<>>), S_http, <<>>), S_www, <<>>)
    IN  Before(Before(Before(stripped, "/"), "?"), ":")

\* Line 34: the non-empty '.'-separated fields.
HostParts(clean_host) == SelectSeq(Split(clean_host, "."), NonEmptyStr)

\* Lines 35-38 with the reversal of line 36 left out.
RawPackageName_NoReverse(clean_host) ==
    LET parts == HostParts(clean_host)
    IN  IF Len(parts) >= 2 THEN Join(parts, <<".">>)
        ELSE IF parts # <<>> THEN S_com_dot \o clean_host
        ELSE S_default_package

\* Lines 35-38.
RawPackageName(clean_host) ==
    LET parts == HostParts(clean_host)
    IN  IF Len(parts) >= 2 THEN Join(Reverse(parts), <<".">>)
        ELSE IF parts # <<>> THEN S_com_dot \o clean_host
        ELSE S_default_package

\* Lines 42-44: the digit test is made on the segment as split, before the
\* characters outside [a-zA-Z0-9_] are removed.
CleanSegment(segment) ==
    LET prefixed == IF segment # <<>> /\ IsDigit(segment[1]) THEN <<"a">> \o segment
                    ELSE segment
    IN  SelectSeq(prefixed, IsWordChar)

\* Lines 40-46.
CleanSegments(package_name) ==
    LET raw == Split(package_name, ".")
        cleaned == [i \in 1..Len(raw) |-> CleanSegment(raw[i])]
    IN  SelectSeq(cleaned, NonEmptyStr)

\* Lines 48-49 replacing the segments by the fixed default instead of
\* prepending 'com', 'webapp' to them.
WithDefaultSegments_Fixed(segments) ==
    IF Len(segments) < 2 THEN Split(S_default_package, ".") ELSE segments

\* Lines 48-49.
WithDefaultSegments(segments) ==
    IF Len(segments) < 2 THEN <<S_com, S_webapp>> \o segments ELSE segments

\* Lines 30-53.  The except branch (lines 54-56) cannot be taken for a str
\* argument: no operation of the try block raises on a str.
generate_package_name(host) ==
    LowerStr(Join(WithDefaultSegments(CleanSegments(RawPackageName(CleanHost(host)))), <<".">>))

(***************************************************************************)
(* Files: a path that may not exist, and the text read_text() returns.     *)
(***************************************************************************)
NoFile == [exists |-> FALSE, text |-> <<>>]

FileOf(t) == [exists |-> TRUE, text |-> t]

(***************************************************************************)
(* The regular expressions of the patch steps, matched as re.sub matches   *)
(* them: at each position from the left, a match is replaced and the scan  *)
(* goes on after it, otherwise the character is copied.                    *)
(***************************************************************************)
\* Length of the run of \s characters s starts with.
LeadingSpaces(s) ==
    IF \A i \in 1..Len(s) : IsSpace(s[i]) THEN Len(s)
    ELSE (CHOOSE i \in 1..Len(s) :
              ~IsSpace(s[i]) /\ \A j \in 1..(i - 1) : IsSpace(s[j])) - 1

\* Lines 64-65, kw\s+["\'].*?["\'] at the start of s: the length of the
\* match, 0 when there is none.  `.` matches no line break, and the lazy
\* `.*?` ends at the first quote of either kind.
QuotedFieldMatch(s, kw) ==
    IF ~StartsWith(s, kw) THEN 0
    ELSE LET rest == Drop(s, Len(kw))
             ws == LeadingSpaces(rest)
             opened == Drop(rest, ws)
         IN  IF ws = 0 \/ opened = <<>> \/ Head(opened) \notin {"\"", "'"} THEN 0
             ELSE LET value == Tail(opened)
                      k == IndexOfAny(value, {"\"", "'", "\n"})
                  IN  IF k >= Len(value) \/ value[k + 1] = "\n" THEN 0
                      ELSE Len(kw) + ws + 1 + k + 1

\* re.sub(kw\s+["\'].*?["\'], repl, s)
RECURSIVE SubQuotedField(_, _, _)
SubQuotedField(s, kw, repl) ==
    LET at == {i \in 1..Len(s) :
                  s[i] = kw[1] /\ QuotedFieldMatch(Drop(s, i - 1), kw) > 0}
    IN  IF at = {} THEN s
        ELSE LET i == MinOf(at)
                 n == QuotedFieldMatch(Drop(s, i - 1), kw)
             IN  SubSeq(s, 1, i - 1) \o repl
                     \o SubQuotedField(Drop(s, i - 1 + n), kw, repl)

S_package_attr == <<"p","a","c","k","a","g","e","=","\"">>

\* Line 79, \s*package="[^"]*" at the start of s: the length of the match, 0
\* when there is none.
PackageAttrMatch(s) ==
    LET ws == LeadingSpaces(s)
        rest == Drop(s, ws)
    IN  IF ~StartsWith(rest, S_package_attr) THEN 0
        ELSE LET value == Drop(rest, Len(S_package_attr))
                 k == IndexOfAny(value, {"\""})
             IN  IF k >= Len(value) THEN 0
                 ELSE ws + Len(S_package_attr) + k + 1

\* re.sub(r'\s*package="[^"]*"', '', s)
RECURSIVE SubPackageAttr(_)
SubPackageAttr(s) ==
    LET at == {i \in 1..Len(s) :
                  (IsSpace(s[i]) \/ s[i] = "p") /\ PackageAttrMatch(Drop(s, i - 1)) > 0}
    IN  IF at = {} THEN s
        ELSE LET i == MinOf(at)
                 n == PackageAttrMatch(Drop(s, i - 1))
             IN  SubSeq(s, 1, i - 1) \o SubPackageAttr(Drop(s, i - 1 + n))

S_string_close == <<"<","/","s","t","r","i","n","g",">">>

\* <string name="NAME">
StringOpen(name) ==
    <<"<","s","t","r","i","n","g"," ","n","a","m","e","=","\"">> \o name \o <<"\"",">">>

S_app_name == <<"a","p","p","_","n","a","m","e">>
S_launch_url == <<"l","a","u","n","c","h","_","u","r","l">>

\* Lines 102-103, <string name="NAME">[^<]*</string> at the start of s: the
\* length of the match, 0 when there is none.
StringEntryMatch(s, name) ==
    IF ~StartsWith(s, StringOpen(name)) THEN 0
    ELSE LET value == Drop(s, Len(StringOpen(name)))
             k == IndexOfAny(value, {"<"})
         IN  IF StartsWith(Drop(value, k), S_string_close)
             THEN Len(StringOpen(name)) + k + Len(S_string_close)
             ELSE 0

\* re.sub(<string name="NAME">[^<]*</string>, <string name="NAME">VALUE</string>, s)
\* for a VALUE without a backslash (the replacement is then taken literally).
RECURSIVE SubStringEntry(_, _, _)
SubStringEntry(s, name, value) ==
    LET at == {i \in 1..Len(s) :
                  s[i] = "<" /\ StringEntryMatch(Drop(s, i - 1), name) > 0}
    IN  IF at = {} THEN s
        ELSE LET i == MinOf(at)
                 n == StringEntryMatch(Drop(s, i - 1), name)
             IN  SubSeq(s, 1, i - 1) \o StringOpen(name) \o value \o S_string_close
                     \o SubStringEntry(Drop(s, i - 1 + n), name, value)

(***************************************************************************)
(* The patch steps of customize-project.py, as functions of the file.      *)
(***************************************************************************)
S_namespace == <<"n","a","m","e","s","p","a","c","e">>
S_applicationId == <<"a","p","p","l","i","c","a","t","i","o","n","I","d">>

\* f'KW "{package_name}"'
QuotedField(kw, value) == kw \o <<" ", "\"">> \o value \o <<"\"">>

\* update_twa_manifest_in_gradle, lines 63-65: the text written at line 66.
GradlePatched(text, package) ==
    SubQuotedField(
        SubQuotedField(text, S_namespace, QuotedField(S_namespace, package)),
        S_applicationId, QuotedField(S_applicationId, package))

\* update_manifest_remove_package, line 79.
ManifestPatched(text) == SubPackageAttr(text)

S_http_prefix == <<"h","t","t","p">>

\* update_strings_xml, lines 96-100: the URL written for launch_url.
ResolvedLaunchUrl(host, launch) ==
    IF StartsWith(launch, S_http_prefix) THEN launch
    ELSE LET path == IF StartsWith(launch, <<"/">>) THEN launch ELSE <<"/">> \o launch
             host_clean == Replace(Replace(host, S_https, <<>>), S_http, <<>>)
         IN  S_https \o host_clean \o path

\* update_strings_xml, lines 96-103: the text written at line 104.
StringsPatched(text, app, host, launch) ==
    SubStringEntry(
        SubStringEntry(text, S_app_name, app),
        S_launch_url, ResolvedLaunchUrl(host, launch))

S_package_kw == <<"p","a","c","k","a","g","e"," ">>
S_import_kw == <<"i","m","p","o","r","t"," ">>
old_package == <<"c","o","m",".","e","x","a","m","p","l","e",".","g","i","t","h","u","b","a","c","t","i","o","n","a","p","k","s">>

\* update_java_kotlin_package, lines 120-124: the text written at line 125
\* for one source file.  re.escape makes the import pattern a literal.
SourcePatched(text, old, new) ==
    LET declared == IF Contains(text, S_package_kw \o old)
                    THEN Replace(text, S_package_kw \o old, S_package_kw \o new)
                    ELSE text
    IN  Replace(declared, S_import_kw \o old, S_import_kw \o new)

S_ic_launcher_background == <<"i","c","_","l","a","u","n","c","h","e","r","_","b","a","c","k","g","r","o","u","n","d">>
S_resources_close == <<"<","/","r","e","s","o","u","r","c","e","s",">">>
S_background_entry == <<" "," "," "," ","<","c","o","l","o","r"," ","n","a","m","e","=","\"","i","c","_","l","a","u","n","c","h","e","r","_","b","a","c","k","g","r","o","u","n","d","\"",">","#","3","B","8","2","F","6","<","/","c","o","l","o","r",">","\n","<","/","r","e","s","o","u","r","c","e","s",">">>
S_new_colors_xml == <<"<","?","x","m","l"," ","v","e","r","s","i","o","n","=","\"","1",".","0","\""," ","e","n","c","o","d","i","n","g","=","\"","u","t","f","-","8","\"","?",">","\n","<","r","e","s","o","u","r","c","e","s",">","\n"," "," "," "," ","<","c","o","l","o","r"," ","n","a","m","e","=","\"","i","c","_","l","a","u","n","c","h","e","r","_","b","a","c","k","g","r","o","u","n","d","\"",">","#","3","B","8","2","F","6","<","/","c","o","l","o","r",">","\n","<","/","r","e","s","o","u","r","c","e","s",">">>

\* create_launcher_background_color, lines 284-302: colors.xml afterwards.
LauncherBackgroundAdded(file) ==
    IF file.exists
    THEN IF ~Contains(file.text, S_ic_launcher_background)
         THEN FileOf(Replace(file.text, S_resources_close, S_background_entry))
         ELSE file
    ELSE FileOf(S_new_colors_xml)

(***************************************************************************)
(* The icon assets (lines 161-175 and 340-348).                            *)
(***************************************************************************)
\* mipmaps of lines 162 and 340, in the order both loops visit them.
MipmapNames ==
    <<"mipmap-mdpi", "mipmap-hdpi", "mipmap-xhdpi", "mipmap-xxhdpi", "mipmap-xxxhdpi">>

S_ic_launcher == <<"i","c","_","l","a","u","n","c","h","e","r">>
S_ic_foreground == <<"i","c","_","f","o","r","e","g","r","o","u","n","d">>
F_ic_launcher_webp == <<"i","c","_","l","a","u","n","c","h","e","r",".","w","e","b","p">>
F_ic_launcher_round_webp == <<"i","c","_","l","a","u","n","c","h","e","r","_","r","o","u","n","d",".","w","e","b","p">>

\* clean_existing_icons, line 168: the file names it removes.
IsLauncherFile(name) == Contains(name, S_ic_launcher) \/ Contains(name, S_ic_foreground)

\* A file of a bucket directory: its name and the image it was made from
\* ("stale" for a file that was there before the run).
IconFile(n, made_from) == [name |-> n, stamp |-> made_from]

\* clean_existing_icons, lines 165-173, for one directory: every matching
\* file is unlinked; an unlink that raises is passed over (line 173).
CleanBucket(b) ==
    IF b.kind = "dir" /\ b.writable
    THEN [b EXCEPT !.files = {f \in @ : ~IsLauncherFile(f.name)}]
    ELSE b

\* clean_existing_icons, lines 161-175: the buckets are visited in order;
\* d.iterdir() (line 167) raises on a path that exists and is not a
\* directory, and nothing in clean_existing_icons or set_launcher_icons
\* catches that.
clean_existing_icons(m) ==
    LET bad == {i \in 1..Len(m) : m[i].kind = "file"}
        first == IF bad = {} THEN Len(m) + 1 ELSE MinOf(bad)
    IN  [mipmaps |-> [i \in 1..Len(m) |-> IF i < first THEN CleanBucket(m[i]) ELSE m[i]],
         raised |-> bad # {}]

\* set_launcher_icons, lines 345-348, for one bucket: mkdir(exist_ok=True),
\* then the two raster icons; create_webp_icon returns False when the save
\* raises (lines 186-188).
EmitBucket(b, made_from) ==
    LET d == IF b.kind = "absent"
             THEN [kind |-> "dir", writable |-> TRUE, files |-> {}]
             ELSE b
    IN  IF d.writable
        THEN [d EXCEPT !.files =
                {f \in @ : f.name \notin {F_ic_launcher_webp, F_ic_launcher_round_webp}}
                    \cup {IconFile(F_ic_launcher_webp, made_from),
                          IconFile(F_ic_launcher_round_webp, made_from)}]
        ELSE d

\* icon_urls (lines 313-317) and vector_foregrounds (lines 196-200): the
\* keys of the catalog.
CatalogKeys == {"phone", "rocket", "shield"}

\* The release variables main requires when PUBLISH_RELEASE is true
\* (lines 433-435).
ReleaseEnv == {"GITHUB_REPO", "GITHUB_TOKEN", "RELEASE_TAG"}

\* The variables main requires at lines 394-395.
RequiredEnv == {"HOST_NAME", "APP_NAME"}

(***************************************************************************)
(* State of a run of customize-project.py.                                 *)
(***************************************************************************)
VARIABLES
    host_name,      \* HOST_NAME as read at line 394
    app_name,       \* APP_NAME as read at line 395
    launch_url,     \* LAUNCH_URL as read at line 396
    icon_base64,    \* ICON_BASE64 (line 402): "absent", "valid" or "invalid"
    icon_choice,    \* ICON_CHOICE as read at line 401
    missing_env,    \* the environment variables that are not set
    publish_release,\* PUBLISH_RELEASE is 'true' (line 403)
    app_dir,        \* whether the app directory exists (line 418)
    cloned,         \* whether the template was cloned (line 420)
    outcome,        \* what main returned: "none" while it runs, then 0 or 1
    attempted,      \* the statements of main that were run in this run
    img,            \* img of set_launcher_icons: "none", "inline" or "catalog"
    downloads,      \* the catalog raster images downloaded in this run
    mipmaps,        \* the resolution-bucket directories under res
    res_before,     \* the bucket directories as set_launcher_icons found them
    foreground,     \* drawable/ic_launcher_phone_foreground.xml
    adaptive_config,\* whether mipmap-anydpi-v26/ic_launcher.xml was written
    released,       \* the release requests posted in this run
    package_name,   \* the identifier derived at line 422 (<<>> before that)
    pc,             \* the statement of main that runs next
    build_gradle,   \* app/build.gradle
    manifest,       \* app/src/main/AndroidManifest.xml
    strings_xml,    \* app/src/main/res/values/strings.xml
    java_dir,       \* app/src/main/java: whether it exists, its source files
    colors_xml,     \* app/src/main/res/values/colors.xml
    res_dir,        \* whether app/src/main/res (with its values directory) exists
    written,        \* the files write_text() was called on in this run
    run,            \* the number of this run of the script on the project
    first_run,      \* the project files as the first run left them
    \* build-apk.py
    theme_color,        \* themeColor of the build data (line 195)
    theme_color_dark,   \* themeColorDark (line 196)
    background_color,   \* backgroundColor (line 197)
    ba_colors,          \* its app/src/main/res/values/colors.xml, as parsed
    ba_pc               \* the statement of build-apk.py's main that runs next

config ==
    <<host_name, app_name, launch_url, icon_base64, icon_choice, missing_env,
      publish_release>>

\* The local state of set_launcher_icons and the icon assets it writes.
icon_vars == <<img, downloads, mipmaps, res_before, foreground, adaptive_config>>

\* The state of main around the patch steps.
main_vars == <<app_dir, cloned, outcome, released>>

\* The patched files of the project.
ProjectFiles == <<build_gradle, manifest, strings_xml, java_dir, colors_xml>>

\* The state of build-apk.py's colour step.
build_apk_vars == <<theme_color, theme_color_dark, background_color, ba_colors, ba_pc>>

VARIABLES
    \* upload-apk.py
    up_has_build_id,    \* whether sys.argv[1] is there (line 53)
    up_apk_found,       \* whether find_apk_file finds an APK (line 55)
    up_pc,              \* the statement of upload-apk.py that runs next
    up_uploads,         \* the calls of upload_to_s3 made
    up_output,          \* whether apk_url was written to GITHUB_OUTPUT
    up_returned,        \* what main returned: "none" before, then "None" or 1
    up_exit,            \* the exit status of the process, "none" while it runs
    \* notify-web hook.py
    wh_argc,            \* len(sys.argv) (line 34)
    wh_status,          \* sys.argv[1]
    wh_url_set,         \* whether WEBHOOK_URL is set (lines 7, 11)
    wh_pc,              \* the statement of the script that runs next
    wh_posts,           \* the requests posted
    wh_response,        \* what the post gave: "none", "200", "500", "exception"
    wh_exit             \* the exit status of the process, "none" while it runs

upload_vars ==
    <<up_has_build_id, up_apk_found, up_pc, up_uploads, up_output, up_returned,
      up_exit>>

webhook_vars == <<wh_argc, wh_status, wh_url_set, wh_pc, wh_posts, wh_response, wh_exit>>

VARIABLES
    \* find-apk.py
    fa_files,           \* the files under the working directory
    fa_output_env,      \* whether GITHUB_OUTPUT is set (line 145)
    fa_pc,              \* the statement of find-apk.py that runs next
    apk_files,          \* apk_files of main (line 96)
    main_apk,           \* main_apk of main (lines 133-141), <<>> before
    fa_outputs,         \* the lines written to GITHUB_OUTPUT
    fa_exit             \* the exit status of the process, "none" while it runs

find_vars == <<fa_files, fa_output_env, fa_pc, apk_files, main_apk, fa_outputs, fa_exit>>

VARIABLES
    \* sign-apk.py and sign_and_align_apk of build-apk.py
    sg_script,          \* the script that signs: "sign-apk" or "build-apk"
    sg_keystore,        \* whether android.keystore exists
    sg_tools,           \* what find_android_tools finds: "found", "no-sdk",
                        \* "no-build-tools"
    sg_apk,             \* where the APK to sign is: "debug", "apk-dir",
                        \* "unaligned" (next to an unaligned APK), "none"
    sg_pc,              \* the statement of the signing code that runs next
    sg_log,             \* the commands run so far, with target and result
    sg_exit             \* the exit status of the process, "none" while it runs

sign_vars == <<sg_script, sg_keystore, sg_tools, sg_apk, sg_pc, sg_log, sg_exit>>

\* The state of the other scripts, which no step of customize-project.py
\* touches.
collab_vars == <<build_apk_vars, upload_vars, webhook_vars, find_vars, sign_vars>>

\* The state of customize-project.py, which no step of build-apk.py touches.
customize_vars ==
    <<config, icon_vars, main_vars, attempted, package_name, pc,
      build_gradle, manifest, strings_xml, java_dir, colors_xml, res_dir,
      written, run, first_run>>

vars == <<customize_vars, collab_vars>>

(***************************************************************************)
(* Host names the identifier derivation is checked on: an optional scheme  *)
(* and 'www.' prefix, a body of up to MaxPieces pieces, an optional path,  *)
(* query or port suffix, and the hosts of the documented scenarios.        *)
(***************************************************************************)
HostPieces == {<<"a">>, <<"B">>, <<"1">>, <<"_">>, <<"-">>, <<".">>, S_www, S_http}

HostPrefixes == {<<>>, S_https, S_https \o S_www}

HostSuffixes == {<<>>, <<"/","a","p","p","?","x","=","1">>, <<":","8","0","8","0">>}

RECURSIVE HostBodies(_)
HostBodies(n) ==
    IF n = 0 THEN {<<>>}
    ELSE LET shorter == HostBodies(n - 1)
         IN  shorter \cup {b \o p : b \in shorter, p \in HostPieces}

H_scenario_url == <<"h","t","t","p","s",":","/","/","w","w","w",".","e","x","a","m","p","l","e",".","c","o","m","/","a","p","p","?","x","=","1">>
H_localhost == <<"l","o","c","a","l","h","o","s","t">>
H_mywww == <<"m","y","w","w","w",".","e","x","a","m","p","l","e",".","c","o","m">>

ScenarioHosts == {H_scenario_url, H_localhost, H_mywww}

Hosts ==
    {p \o b \o s : p \in HostPrefixes, b \in HostBodies(MaxPieces), s \in HostSuffixes}
        \cup ScenarioHosts

(***************************************************************************)
(* main, line 422: package_name = generate_package_name(host_name).        *)
(***************************************************************************)
DerivePackage ==
    /\ pc = "derive"
    /\ package_name' = generate_package_name(host_name)
    /\ pc' = "gradle"
    /\ attempted' = attempted \cup {pc}
    /\ UNCHANGED collab_vars
    /\ UNCHANGED <<config, icon_vars, main_vars, build_gradle, manifest, strings_xml, java_dir,
                   colors_xml, res_dir, written, run, first_run>>

\* build-apk.py's colour step is not running.
BuildApkIdle ==
    /\ theme_color = <<>>
    /\ theme_color_dark = <<>>
    /\ background_color = <<>>
    /\ ba_colors = [exists |-> FALSE, colors |-> <<>>]
    /\ ba_pc = "idle"

\* upload-apk.py is not running.
UploadIdle ==
    /\ up_has_build_id = FALSE
    /\ up_apk_found = FALSE
    /\ up_pc = "idle"
    /\ up_uploads = 0
    /\ up_output = FALSE
    /\ up_returned = "none"
    /\ up_exit = "none"

\* notify-web hook.py is not running.
WebhookIdle ==
    /\ wh_argc = 1
    /\ wh_status = "none"
    /\ wh_url_set = FALSE
    /\ wh_pc = "idle"
    /\ wh_posts = 0
    /\ wh_response = "none"
    /\ wh_exit = "none"

\* find-apk.py is not running.
FindIdle ==
    /\ fa_files = {}
    /\ fa_output_env = FALSE
    /\ fa_pc = "idle"
    /\ apk_files = <<>>
    /\ main_apk = <<>>
    /\ fa_outputs = <<>>
    /\ fa_exit = "none"

\* No script is signing.
SignIdle ==
    /\ sg_script = "none"
    /\ sg_keystore = FALSE
    /\ sg_tools = "no-sdk"
    /\ sg_apk = "none"
    /\ sg_pc = "idle"
    /\ sg_log = <<>>
    /\ sg_exit = "none"

\* None of the other scripts is running.
CollabIdle == BuildApkIdle /\ UploadIdle /\ WebhookIdle /\ FindIdle /\ SignIdle

(***************************************************************************)
(* The project the script is run on: the files of the template, in the     *)
(* syntaxes the patch steps may meet.                                      *)
(***************************************************************************)
T_gradle_head == <<"a","n","d","r","o","i","d"," ","{","\n">>
T_gradle_tail == <<" "," "," "," ","v","e","r","s","i","o","n","C","o","d","e"," ","1","\n","}","\n">>
T_indent == <<" "," "," "," ">>

\* One `key value` line of build.gradle.
GradleLine(kw, sep, q, value) == T_indent \o kw \o sep \o <<q>> \o value \o <<q, "\n">>

GradleSeparators == {<<" ">>, <<" ", "=", " ">>}
QuoteChars == {"\"", "'"}

GradleTexts ==
    {T_gradle_head \o GradleLine(S_namespace, sep, q, old_package)
        \o GradleLine(S_applicationId, sep, q, old_package) \o T_gradle_tail :
            sep \in GradleSeparators, q \in QuoteChars}
        \cup {T_gradle_head \o T_gradle_tail}

T_manifest_head == <<"<","m","a","n","i","f","e","s","t"," ","x","m","l","n","s",":","a","n","d","r","o","i","d","=","\"","a","\"">>
T_manifest_tail == <<">","\n","<","a","p","p","l","i","c","a","t","i","o","n","/",">","\n","<","/","m","a","n","i","f","e","s","t",">","\n">>
T_package_eq == <<"\n"," "," "," "," ","p","a","c","k","a","g","e","=">>

ManifestTexts ==
    {T_manifest_head \o T_package_eq \o <<q>> \o old_package \o <<q>> \o T_manifest_tail :
        q \in QuoteChars}
        \cup {T_manifest_head \o T_manifest_tail}

T_resources_open == <<"<","r","e","s","o","u","r","c","e","s",">","\n">>
T_template_name == <<"T","e","m","p","l","a","t","e">>
T_template_url == <<"h","t","t","p","s",":","/","/","e","x","a","m","p","l","e",".","c","o","m","/">>

\* One <string> line of strings.xml.
StringLine(name, value) ==
    T_indent \o StringOpen(name) \o value \o S_string_close \o <<"\n">>

StringsTexts ==
    {T_resources_open
        \o (IF has_app THEN StringLine(S_app_name, T_template_name) ELSE <<>>)
        \o (IF has_url THEN StringLine(S_launch_url, T_template_url) ELSE <<>>)
        \o S_resources_close \o <<"\n">> :
            has_app \in BOOLEAN, has_url \in BOOLEAN}

T_main_activity ==
    S_package_kw \o old_package \o <<";", "\n">>
        \o S_import_kw \o old_package \o <<".", "R", ";", "\n">>

\* The java directory: absent, or holding the template's activity.
JavaDirs == {[exists |-> FALSE, files |-> <<>>],
             [exists |-> TRUE, files |-> <<T_main_activity>>]}

T_colors_head == <<"<","r","e","s","o","u","r","c","e","s",">","\n"," "," "," "," ","<","c","o","l","o","r"," ","n","a","m","e","=","\"","c","o","l","o","r","P","r","i","m","a","r","y","\"",">","#","1","7","1","7","1","7","<","/","c","o","l","o","r",">","\n">>

ColorsTexts ==
    {T_colors_head \o S_resources_close, T_colors_head \o S_background_entry}

FilesOf(texts) == {FileOf(t) : t \in texts} \cup {NoFile}

(***************************************************************************)
(* The configuration main is run with.                                     *)
(***************************************************************************)
H_example_com == <<"e","x","a","m","p","l","e",".","c","o","m">>
H_prefixed == <<"f","o","o",".","g","i","t","h","u","b","a","c","t","i","o","n","a","p","k","s",".","e","x","a","m","p","l","e",".","c","o","m">>

PatchHosts == {H_example_com, H_scenario_url, H_prefixed}

AppNames == {<<"M","y"," ","A","p","p">>}

LaunchUrls == {<<"/">>, <<"s","t","a","r","t">>,
               <<"h","t","t","p","s",":","/","/","o","t","h","e","r",".","e","x","a","m","p","l","e","/","x">>}

(***************************************************************************)
(* The resolution buckets a run may find.                                  *)
(***************************************************************************)
F_ic_launcher_foreground_png == <<"i","c","_","l","a","u","n","c","h","e","r","_","f","o","r","e","g","r","o","u","n","d",".","p","n","g">>
F_ic_foreground_png == <<"i","c","_","f","o","r","e","g","r","o","u","n","d",".","p","n","g">>
F_logo_png == <<"l","o","g","o",".","p","n","g">>

\* The icons of an earlier customization, and a file that is no icon.
StaleFiles ==
    {IconFile(n, "stale") :
        n \in {F_ic_launcher_webp, F_ic_launcher_round_webp,
               F_ic_launcher_foreground_png, F_ic_foreground_png, F_logo_png}}

B_absent == [kind |-> "absent", writable |-> TRUE, files |-> {}]
B_stale == [kind |-> "dir", writable |-> TRUE, files |-> StaleFiles]
\* A directory whose entries can be neither unlinked nor written.
B_locked == [kind |-> "dir", writable |-> FALSE, files |-> StaleFiles]
\* A path that exists and is no directory.
B_file == [kind |-> "file", writable |-> FALSE, files |-> {}]

BucketStates == {B_absent, B_stale, B_locked, B_file}

AllBuckets(b) == [i \in 1..Len(MipmapNames) |-> b]

\* The project git clone leaves in the app directory (line 420).
TemplateProject ==
    [build_gradle |-> FileOf(T_gradle_head
                        \o GradleLine(S_namespace, <<" ">>, "\"", old_package)
                        \o GradleLine(S_applicationId, <<" ">>, "\"", old_package)
                        \o T_gradle_tail),
     manifest |-> FileOf(T_manifest_head \o T_package_eq \o <<"\"">> \o old_package
                        \o <<"\"">> \o T_manifest_tail),
     strings_xml |-> FileOf(T_resources_open \o StringLine(S_app_name, T_template_name)
                        \o StringLine(S_launch_url, T_template_url)
                        \o S_resources_close \o <<"\n">>),
     java_dir |-> [exists |-> TRUE, files |-> <<T_main_activity>>],
     colors_xml |-> FileOf(T_colors_head \o S_resources_close),
     mipmaps |-> AllBuckets(B_stale)]

(***************************************************************************)
(* main, lines 392-420: the configuration and the app directory.           *)
(***************************************************************************)
\* LoadConfig without the test of read_env_or_fail.
LoadConfig_Unchecked ==
    /\ pc = "config"
    /\ pc' = "locate"
    /\ attempted' = attempted \cup {pc}
    /\ UNCHANGED collab_vars
    /\ UNCHANGED <<config, icon_vars, main_vars, package_name, ProjectFiles,
                   res_dir, written, run, first_run>>

\* Lines 392-404: read_env_or_fail (lines 21-25) raises on a required
\* variable that is not set, and main's handler returns 1 (lines 446-449).
LoadConfig ==
    /\ pc = "config"
    /\ IF RequiredEnv \cap missing_env # {}
       THEN pc' = "failed" /\ outcome' = 1
       ELSE pc' = "locate" /\ UNCHANGED outcome
    /\ attempted' = attempted \cup {pc}
    /\ UNCHANGED collab_vars
    /\ UNCHANGED <<config, icon_vars, app_dir, cloned, released, package_name,
                   ProjectFiles, res_dir, written, run, first_run>>

\* Lines 418-420: an app directory that does not exist is cloned from the
\* template; subprocess.run(check=True) raises when git fails.
LocateProject ==
    /\ pc = "locate"
    /\ IF app_dir
       THEN /\ pc' = "derive"
            /\ UNCHANGED <<app_dir, cloned, outcome, ProjectFiles, res_dir, mipmaps>>
       ELSE /\ cloned' = TRUE
            /\ \E git_ok \in BOOLEAN :
                IF git_ok
                THEN /\ app_dir' = TRUE
                     /\ build_gradle' = TemplateProject.build_gradle
                     /\ manifest' = TemplateProject.manifest
                     /\ strings_xml' = TemplateProject.strings_xml
                     /\ java_dir' = TemplateProject.java_dir
                     /\ colors_xml' = TemplateProject.colors_xml
                     /\ mipmaps' = TemplateProject.mipmaps
                     /\ res_dir' = TRUE
                     /\ pc' = "derive"
                     /\ UNCHANGED outcome
                ELSE /\ pc' = "failed"
                     /\ outcome' = 1
                     /\ UNCHANGED <<app_dir, ProjectFiles, res_dir, mipmaps>>
    /\ attempted' = attempted \cup {pc}
    /\ UNCHANGED collab_vars
    /\ UNCHANGED <<config, img, downloads, res_before, foreground,
                   adaptive_config, released, package_name, written, run,
                   first_run>>

(***************************************************************************)
(* main, lines 423-430: the patch steps, in the order main calls them.     *)
(***************************************************************************)
\* UpdateGradle called without waiting for generate_package_name.
UpdateGradle_Early ==
    /\ pc \in {"derive", "gradle"}
    /\ IF build_gradle.exists
       THEN /\ build_gradle' = FileOf(GradlePatched(build_gradle.text, package_name))
            /\ written' = written \cup {"build_gradle"}
       ELSE UNCHANGED <<build_gradle, written>>
    /\ pc' = "manifest"
    /\ attempted' = attempted \cup {"gradle"}
    /\ UNCHANGED collab_vars
    /\ UNCHANGED <<config, icon_vars, main_vars, package_name, manifest, strings_xml, java_dir,
                   colors_xml, res_dir, run, first_run>>

\* Line 424, update_twa_manifest_in_gradle (lines 58-71).
UpdateGradle ==
    /\ pc = "gradle"
    /\ IF build_gradle.exists
       THEN /\ build_gradle' = FileOf(GradlePatched(build_gradle.text, package_name))
            /\ written' = written \cup {"build_gradle"}
       ELSE UNCHANGED <<build_gradle, written>>
    /\ pc' = "manifest"
    /\ attempted' = attempted \cup {pc}
    /\ UNCHANGED collab_vars
    /\ UNCHANGED <<config, icon_vars, main_vars, package_name, manifest, strings_xml, java_dir,
                   colors_xml, res_dir, run, first_run>>

\* Line 426, update_manifest_remove_package (lines 73-86).
UpdateManifest ==
    /\ pc = "manifest"
    /\ IF manifest.exists /\ ManifestPatched(manifest.text) # manifest.text
       THEN /\ manifest' = FileOf(ManifestPatched(manifest.text))
            /\ written' = written \cup {"manifest"}
       ELSE UNCHANGED <<manifest, written>>
    /\ pc' = "strings"
    /\ attempted' = attempted \cup {pc}
    /\ UNCHANGED collab_vars
    /\ UNCHANGED <<config, icon_vars, main_vars, package_name, build_gradle, strings_xml, java_dir,
                   colors_xml, res_dir, run, first_run>>

\* Line 427, update_strings_xml (lines 88-109).
UpdateStrings ==
    /\ pc = "strings"
    /\ IF strings_xml.exists
       THEN /\ strings_xml' =
                FileOf(StringsPatched(strings_xml.text, app_name, host_name, launch_url))
            /\ written' = written \cup {"strings_xml"}
       ELSE UNCHANGED <<strings_xml, written>>
    /\ pc' = "java"
    /\ attempted' = attempted \cup {pc}
    /\ UNCHANGED collab_vars
    /\ UNCHANGED <<config, icon_vars, main_vars, package_name, build_gradle, manifest, java_dir,
                   colors_xml, res_dir, run, first_run>>

\* Lines 428-429, update_java_kotlin_package (lines 111-129): every source
\* file is read, patched and written back.
UpdateSources ==
    /\ pc = "java"
    /\ IF java_dir.exists
       THEN /\ java_dir' =
                [java_dir EXCEPT !.files =
                    [i \in 1..Len(java_dir.files) |->
                        SourcePatched(java_dir.files[i], old_package, package_name)]]
            /\ written' = IF java_dir.files # <<>> THEN written \cup {"java"} ELSE written
       ELSE UNCHANGED <<java_dir, written>>
    /\ pc' = "icons"
    /\ attempted' = attempted \cup {pc}
    /\ UNCHANGED collab_vars
    /\ UNCHANGED <<config, icon_vars, main_vars, package_name, build_gradle, manifest, strings_xml,
                   colors_xml, res_dir, run, first_run>>

\* Line 430, set_launcher_icons, lines 307-311: without the resources
\* directory it returns at line 310; otherwise the existing icons are
\* cleaned.  An exception of clean_existing_icons reaches main's handler
\* (lines 446-449), which returns 1.
CleanExistingIcons ==
    /\ pc = "icons"
    /\ res_before' = mipmaps
    /\ IF ~res_dir
       THEN /\ pc' = "publish"
            /\ UNCHANGED <<mipmaps, outcome>>
       ELSE LET cleaned == clean_existing_icons(mipmaps)
            IN  /\ mipmaps' = cleaned.mipmaps
                /\ IF cleaned.raised
                   THEN pc' = "failed" /\ outcome' = 1
                   ELSE pc' = "inline" /\ UNCHANGED outcome
    /\ attempted' = attempted \cup {pc}
    /\ UNCHANGED collab_vars
    /\ UNCHANGED <<config, img, downloads, foreground, adaptive_config, app_dir,
                   cloned, released, package_name, ProjectFiles, res_dir,
                   written, run, first_run>>

\* set_launcher_icons, lines 319-325: the inline image, when there is one,
\* is decoded; a decoding error is logged and img stays None.
AcquireInline ==
    /\ pc = "inline"
    /\ img' = IF icon_base64 = "valid" THEN "inline" ELSE "none"
    /\ pc' = "catalog"
    /\ attempted' = attempted \cup {pc}
    /\ UNCHANGED collab_vars
    /\ UNCHANGED <<config, downloads, mipmaps, res_before, foreground,
                   adaptive_config, main_vars, package_name, ProjectFiles, res_dir, written, run,
                   first_run>>

\* What download_icon_from_url and Image.open make of a catalog entry
\* (lines 328-334): an image, data that is no image, or no data.
DownloadResults == {"image", "garbage", "error"}

\* AcquireCatalog fetching the catalog image whether or not the inline
\* image was decoded.
AcquireCatalog_Always ==
    /\ pc = "catalog"
    /\ IF icon_choice \in CatalogKeys
       THEN \E result \in DownloadResults :
                /\ downloads' = downloads + 1
                /\ img' = IF result = "image" THEN "catalog" ELSE img
       ELSE UNCHANGED <<img, downloads>>
    /\ pc' = IF img' = "none" THEN "publish" ELSE "emit"
    /\ attempted' = attempted \cup {pc}
    /\ UNCHANGED collab_vars
    /\ UNCHANGED <<config, mipmaps, res_before, foreground, adaptive_config,
                   main_vars, package_name, ProjectFiles, res_dir, written, run,
                   first_run>>

\* set_launcher_icons, lines 327-338: the catalog image is fetched when img
\* is None and ICON_CHOICE is a catalog key; without an image the function
\* returns at line 338.
AcquireCatalog ==
    /\ pc = "catalog"
    /\ IF img = "none" /\ icon_choice \in CatalogKeys
       THEN \E result \in DownloadResults :
                /\ downloads' = downloads + 1
                /\ img' = IF result = "image" THEN "catalog" ELSE "none"
       ELSE UNCHANGED <<img, downloads>>
    /\ pc' = IF img' = "none" THEN "publish" ELSE "emit"
    /\ attempted' = attempted \cup {pc}
    /\ UNCHANGED collab_vars
    /\ UNCHANGED <<config, mipmaps, res_before, foreground, adaptive_config,
                   main_vars, package_name, ProjectFiles, res_dir, written, run, first_run>>

\* set_launcher_icons, lines 340-360: the raster icons of every bucket, the
\* foreground vector (create_adaptive_foreground_icon, lines 190-213: the
\* downloaded vector of a catalog key, the built-in phone otherwise), the
\* adaptive icon configuration (lines 266-280) and the background colour
\* (lines 282-304).
EmitIcons ==
    /\ pc = "emit"
    /\ mipmaps' = [i \in 1..Len(mipmaps) |-> EmitBucket(mipmaps[i], img)]
    /\ \E vector_downloaded \in BOOLEAN :
            foreground' = IF icon_choice \in CatalogKeys /\ vector_downloaded
                          THEN "downloaded" ELSE "phone"
    /\ adaptive_config' = TRUE
    /\ colors_xml' = LauncherBackgroundAdded(colors_xml)
    /\ written' = IF colors_xml' # colors_xml
                  THEN written \cup {"colors_xml"} ELSE written
    /\ pc' = "publish"
    /\ attempted' = attempted \cup {pc}
    /\ UNCHANGED collab_vars
    /\ UNCHANGED <<config, img, downloads, res_before, main_vars, package_name,
                   build_gradle, manifest, strings_xml, java_dir, res_dir, run,
                   first_run>>

\* main, lines 432-444: the optional release.  A release variable that is
\* not set raises (lines 433-435) and main returns 1; the result of
\* publish_github_release is not looked at, and main returns 0.
PublishRelease ==
    /\ pc = "publish"
    /\ IF publish_release /\ ReleaseEnv \cap missing_env # {}
       THEN /\ pc' = "failed"
            /\ outcome' = 1
            /\ UNCHANGED released
       ELSE /\ pc' = "done"
            /\ outcome' = 0
            /\ released' = IF publish_release THEN released + 1 ELSE released
    /\ attempted' = attempted \cup {pc}
    /\ UNCHANGED collab_vars
    /\ UNCHANGED <<config, icon_vars, app_dir, cloned, package_name, ProjectFiles,
                   res_dir, written, run, first_run>>

\* The files of a bucket as a later run finds them.
Aged(b) == [b EXCEPT !.files = {IconFile(f.name, "stale") : f \in @}]

\* The script is run again on the project it has patched, with the same
\* configuration.
Rerun ==
    /\ pc = "done"
    /\ run < MaxRuns
    /\ run' = run + 1
    /\ first_run' = IF run = 1 THEN ProjectFiles ELSE first_run
    /\ written' = {}
    /\ attempted' = {}
    /\ package_name' = <<>>
    /\ pc' = "config"
    /\ outcome' = "none"
    /\ img' = "none"
    /\ downloads' = 0
    /\ released' = 0
    /\ cloned' = FALSE
    /\ mipmaps' = [i \in 1..Len(mipmaps) |-> Aged(mipmaps[i])]
    /\ UNCHANGED collab_vars
    /\ UNCHANGED <<config, res_before, foreground, adaptive_config, app_dir,
                   ProjectFiles, res_dir>>

\* A run that has not started: nothing attempted, no image, no outcome.
RunStart ==
    /\ package_name = <<>>
    /\ pc = "config"
    /\ written = {}
    /\ attempted = {}
    /\ run = 1
    /\ first_run = <<>>
    /\ outcome = "none"
    /\ img = "none"
    /\ downloads = 0
    /\ released = 0
    /\ cloned = FALSE
    /\ res_before = <<>>
    /\ foreground = "none"
    /\ adaptive_config = FALSE

\* The patch run on an existing project, with its files in the syntaxes
\* the patch steps may meet.
Init ==
    /\ host_name \in PatchHosts
    /\ app_name \in AppNames
    /\ launch_url \in LaunchUrls
    /\ icon_base64 \in {"absent", "valid"}
    /\ icon_choice = "custom"
    /\ missing_env = {}
    /\ publish_release = FALSE
    /\ app_dir = TRUE
    /\ build_gradle \in FilesOf(GradleTexts)
    /\ manifest \in FilesOf(ManifestTexts)
    /\ strings_xml \in FilesOf(StringsTexts)
    /\ java_dir \in JavaDirs
    /\ colors_xml \in FilesOf(ColorsTexts)
    /\ res_dir \in BOOLEAN
    /\ (strings_xml.exists \/ colors_xml.exists) => res_dir
    /\ mipmaps = IF res_dir THEN AllBuckets(B_stale) ELSE AllBuckets(B_absent)
    /\ RunStart
    /\ CollabIdle

\* The steps of main (lines 392-444).
MainStep ==
    \/ LoadConfig
    \/ LocateProject
    \/ DerivePackage
    \/ UpdateGradle
    \/ UpdateManifest
    \/ UpdateStrings
    \/ UpdateSources
    \/ CleanExistingIcons
    \/ AcquireInline
    \/ AcquireCatalog
    \/ EmitIcons
    \/ PublishRelease

Next == MainStep \/ Rerun

Spec == Init /\ [][Next]_vars

(***************************************************************************)
(* One run of main from its first statement, over the environments and     *)
(* the projects it may be started in.                                      *)
(***************************************************************************)
\* The parts of the project that may be missing from the app directory.
MissingParts ==
    {{}, {"build_gradle"}, {"manifest"}, {"strings_xml"}, {"java_dir"}, {"res_dir"}}

\* The environments main is started in: everything set, or one variable
\* not set.
MissingEnvs == {{}, {"HOST_NAME"}, {"APP_NAME"}, {"GITHUB_TOKEN"}}

IconChoices == {"phone", "custom"}

\* The bucket directories of an existing project: those of the template,
\* with the first or the last one in any of the states of BucketStates.
MipmapStates ==
    {[AllBuckets(B_stale) EXCEPT ![i] = b] : i \in {1, Len(MipmapNames)}, b \in BucketStates}

InitMain ==
    /\ missing_env \in MissingEnvs
    /\ host_name = IF "HOST_NAME" \in missing_env THEN <<>> ELSE H_example_com
    /\ app_name \in AppNames
    /\ launch_url = <<"/">>
    /\ icon_base64 \in {"absent", "valid", "invalid"}
    /\ icon_choice \in IconChoices
    /\ publish_release \in BOOLEAN
    /\ app_dir \in BOOLEAN
    /\ \E missing \in MissingParts :
        /\ missing # {} => app_dir
        /\ build_gradle = IF app_dir /\ "build_gradle" \notin missing
                          THEN TemplateProject.build_gradle ELSE NoFile
        /\ manifest = IF app_dir /\ "manifest" \notin missing
                      THEN TemplateProject.manifest ELSE NoFile
        /\ strings_xml = IF app_dir /\ missing \cap {"strings_xml", "res_dir"} = {}
                         THEN TemplateProject.strings_xml ELSE NoFile
        /\ java_dir = IF app_dir /\ "java_dir" \notin missing
                      THEN TemplateProject.java_dir
                      ELSE [exists |-> FALSE, files |-> <<>>]
        /\ colors_xml = IF app_dir /\ "res_dir" \notin missing
                        THEN TemplateProject.colors_xml ELSE NoFile
        /\ res_dir = (app_dir /\ "res_dir" \notin missing)
    /\ IF res_dir THEN mipmaps \in MipmapStates ELSE mipmaps = AllBuckets(B_absent)
    /\ RunStart
    /\ CollabIdle

NextMain == MainStep

SpecMain == InitMain /\ [][NextMain]_vars

\* Control leaves the statement it is at: main runs in one thread and every
\* statement of it returns or raises (lines 391-449), so a run that has not
\* returned goes on to another statement or to its handler.
StatementEnds ==
    /\ pc \notin {"done", "failed"}
    /\ pc' \in {"locate", "derive", "gradle", "manifest", "strings", "java", "icons",
                "inline", "catalog", "emit", "publish", "done", "failed"} \ {pc}

SpecMainFair == SpecMain /\ WF_pc(StatementEnds)

(***************************************************************************)
(* The patch steps on project files that hold more than the fields they    *)
(* patch.                                                                  *)
(***************************************************************************)
T_manifest_meta_tail == <<">","\n","<","a","p","p","l","i","c","a","t","i","o","n","/",">","\n","<","m","e","t","a","-","d","a","t","a"," ","a","p","p",":","p","a","c","k","a","g","e","=","\"","x","\"","/",">","\n","<","/","m","a","n","i","f","e","s","t",">","\n">>
T_other_string == <<" "," "," "," ","<","s","t","r","i","n","g"," ","n","a","m","e","=","\"","o","t","h","e","r","\"",">","x","<","/","s","t","r","i","n","g",">","\n">>

\* A manifest whose root carries the package attribute and which has an
\* element with an attribute of another namespace named package.
ManifestTextsOther ==
    {T_manifest_head \o T_package_eq \o <<"\"">> \o old_package \o <<"\"">>
        \o T_manifest_meta_tail,
     T_manifest_head \o T_manifest_meta_tail}

\* A string table with an entry the patch does not know.
StringsTextsOther ==
    {T_resources_open \o StringLine(S_app_name, T_template_name) \o T_other_string
        \o StringLine(S_launch_url, T_template_url) \o S_resources_close \o <<"\n">>}

InitPatch ==
    /\ host_name = H_example_com
    /\ app_name \in AppNames
    /\ launch_url \in LaunchUrls
    /\ icon_base64 = "valid"
    /\ icon_choice = "custom"
    /\ missing_env = {}
    /\ publish_release = FALSE
    /\ app_dir = TRUE
    /\ build_gradle \in FilesOf(GradleTexts)
    /\ manifest \in FilesOf(ManifestTexts \cup ManifestTextsOther)
    /\ strings_xml \in FilesOf(StringsTexts \cup StringsTextsOther)
    /\ java_dir = TemplateProject.java_dir
    /\ colors_xml = TemplateProject.colors_xml
    /\ res_dir = TRUE
    /\ mipmaps = AllBuckets(B_stale)
    /\ RunStart
    /\ CollabIdle

NextPatch == MainStep

SpecPatch == InitPatch /\ [][NextPatch]_vars

(***************************************************************************)
(* build-apk.py: the colour step of main (line 212).                       *)
(***************************************************************************)
C_171717_hash == <<"#","1","7","1","7","1","7">>
C_000000_hash == <<"#","0","0","0","0","0","0">>
C_FFFFFF_hash == <<"#","F","F","F","F","F","F">>
C_171717 == <<"1","7","1","7","1","7">>
C_3B82F6_hash == <<"#","3","B","8","2","F","6">>
C_3B82F6 == <<"3","B","8","2","F","6">>

\* build_data.get(key, default), lines 195-197: the default when the key is
\* absent, the value as given otherwise.
ThemeColors == {C_171717_hash, C_171717, C_3B82F6_hash, C_3B82F6}
ThemeColorsDark == {C_000000_hash, C_171717, C_3B82F6_hash, C_3B82F6}
BackgroundColors == {C_FFFFFF_hash, C_171717, C_3B82F6_hash, C_3B82F6}

\* The <color> elements of the template's colors.xml, in document order.
ColorElement(n, t) == [name |-> n, text |-> t]

TemplateColors ==
    <<ColorElement("colorPrimary", C_3B82F6_hash),
      ColorElement("colorPrimaryDark", C_000000_hash),
      ColorElement("colorAccent", C_3B82F6_hash),
      ColorElement("backgroundColor", C_FFFFFF_hash)>>

BuildColorFiles ==
    {[exists |-> FALSE, colors |-> <<>>],
     [exists |-> TRUE, colors |-> TemplateColors],
     [exists |-> TRUE, colors |-> SubSeq(TemplateColors, 1, 3)]}

\* update_colors_xml, lines 49-56: the text each <color> element is given.
ColorsUpdated(colors, theme, dark, background) ==
    [i \in 1..Len(colors) |->
        IF colors[i].name = "colorPrimary" THEN [colors[i] EXCEPT !.text = theme]
        ELSE IF colors[i].name = "colorPrimaryDark" THEN [colors[i] EXCEPT !.text = dark]
        ELSE IF colors[i].name = "backgroundColor"
             THEN [colors[i] EXCEPT !.text = background]
        ELSE colors[i]]

\* main line 212, update_colors_xml (lines 41-63): a colors.xml that cannot
\* be parsed raises, and main exits with 1 (lines 231-233).
UpdateColorsXml ==
    /\ ba_pc = "colors"
    /\ IF ba_colors.exists
       THEN /\ ba_colors' =
                [ba_colors EXCEPT !.colors =
                    ColorsUpdated(ba_colors.colors, theme_color, theme_color_dark,
                                  background_color)]
            /\ ba_pc' = "activity"
       ELSE /\ ba_pc' = "failed"
            /\ UNCHANGED ba_colors
    /\ UNCHANGED <<theme_color, theme_color_dark, background_color>>
    /\ UNCHANGED <<customize_vars, upload_vars, webhook_vars, find_vars, sign_vars>>

\* customize-project.py is not running.
CustomizeIdle ==
    /\ host_name = <<>>
    /\ app_name = <<>>
    /\ launch_url = <<>>
    /\ icon_base64 = "absent"
    /\ icon_choice = "custom"
    /\ missing_env = {}
    /\ publish_release = FALSE
    /\ app_dir = FALSE
    /\ mipmaps = AllBuckets(B_absent)
    /\ cloned = FALSE
    /\ outcome = "none"
    /\ attempted = {}
    /\ img = "none"
    /\ downloads = 0
    /\ released = 0
    /\ res_before = <<>>
    /\ foreground = "none"
    /\ adaptive_config = FALSE
    /\ package_name = <<>>
    /\ pc = "idle"
    /\ build_gradle = NoFile
    /\ manifest = NoFile
    /\ strings_xml = NoFile
    /\ java_dir = [exists |-> FALSE, files |-> <<>>]
    /\ colors_xml = NoFile
    /\ res_dir = FALSE
    /\ written = {}
    /\ run = 1
    /\ first_run = <<>>

InitBuildApk ==
    /\ theme_color \in ThemeColors
    /\ theme_color_dark \in ThemeColorsDark
    /\ background_color \in BackgroundColors
    /\ ba_colors \in BuildColorFiles
    /\ ba_pc = "colors"
    /\ CustomizeIdle
    /\ UploadIdle /\ WebhookIdle /\ FindIdle /\ SignIdle

NextBuildApk == UpdateColorsXml

SpecBuildApk == InitBuildApk /\ [][NextBuildApk]_vars

(***************************************************************************)
(* upload-apk.py and notify-web hook.py: each is run once, as a process of *)
(* its own.                                                                *)
(***************************************************************************)
\* upload-apk.py main, lines 53-58: sys.argv[1] raises IndexError when the
\* build id is not given (the process ends with a traceback, status 1);
\* without an APK main returns 1.
UploadFindApk ==
    /\ up_pc = "start"
    /\ IF ~up_has_build_id
       THEN up_pc' = "exited" /\ up_exit' = 1 /\ UNCHANGED up_returned
       ELSE IF ~up_apk_found
       THEN up_pc' = "return" /\ up_returned' = 1 /\ UNCHANGED up_exit
       ELSE up_pc' = "upload" /\ UNCHANGED <<up_returned, up_exit>>
    /\ UNCHANGED <<up_has_build_id, up_apk_found, up_uploads, up_output>>
    /\ UNCHANGED <<customize_vars, build_apk_vars, webhook_vars, find_vars, sign_vars>>

\* What upload_to_s3 (lines 21-50) and the write to GITHUB_OUTPUT
\* (lines 67-68) may do.
UploadResults == {"uploaded", "raises"}
OutputResults == {"written", "raises"}

\* upload-apk.py main, lines 62-72: one call of upload_to_s3, then the URL
\* is written; an exception of either makes main return 1, and otherwise
\* main returns None.
UploadToS3 ==
    /\ up_pc = "upload"
    /\ up_uploads' = up_uploads + 1
    /\ \E upload \in UploadResults, output \in OutputResults :
        /\ up_output' = (upload = "uploaded" /\ output = "written")
        /\ up_returned' = IF up_output' THEN "None" ELSE 1
    /\ up_pc' = "return"
    /\ UNCHANGED <<up_has_build_id, up_apk_found, up_exit>>
    /\ UNCHANGED <<customize_vars, build_apk_vars, webhook_vars, find_vars, sign_vars>>

\* upload-apk.py, lines 74-75: main() is called and what it returns is not
\* passed to exit; the process ends with status 0.
UploadExit ==
    /\ up_pc = "return"
    /\ up_exit' = 0
    /\ up_pc' = "exited"
    /\ UNCHANGED <<up_has_build_id, up_apk_found, up_uploads, up_output, up_returned>>
    /\ UNCHANGED <<customize_vars, build_apk_vars, webhook_vars, find_vars, sign_vars>>

\* notify-web hook.py, lines 33-38: the usage test.
NotifyStart ==
    /\ wh_pc = "start"
    /\ IF wh_argc # 2
       THEN wh_pc' = "exited" /\ wh_exit' = 1
       ELSE wh_pc' = "notify" /\ UNCHANGED wh_exit
    /\ UNCHANGED <<wh_argc, wh_status, wh_url_set, wh_posts, wh_response>>
    /\ UNCHANGED <<customize_vars, build_apk_vars, upload_vars, find_vars, sign_vars>>

\* What requests.post gives (lines 25-31).
WebhookResponses == {"200", "500", "exception"}

\* notify_webhook, lines 6-31: without WEBHOOK_URL it returns; otherwise it
\* posts once and prints what came of it.  The process then ends with
\* status 0.
NotifyWebhook ==
    /\ wh_pc = "notify"
    /\ IF wh_url_set
       THEN /\ wh_posts' = wh_posts + 1
            /\ wh_response' \in WebhookResponses
       ELSE UNCHANGED <<wh_posts, wh_response>>
    /\ wh_pc' = "exited"
    /\ wh_exit' = 0
    /\ UNCHANGED <<wh_argc, wh_status, wh_url_set>>
    /\ UNCHANGED <<customize_vars, build_apk_vars, upload_vars, find_vars, sign_vars>>

WebhookStatuses == {"success", "failure"}

InitUpload ==
    /\ up_has_build_id \in BOOLEAN
    /\ up_apk_found \in BOOLEAN
    /\ up_pc = "start"
    /\ up_uploads = 0
    /\ up_output = FALSE
    /\ up_returned = "none"
    /\ up_exit = "none"
    /\ wh_argc \in 1..3
    /\ wh_status \in IF wh_argc >= 2 THEN WebhookStatuses ELSE {"none"}
    /\ wh_url_set \in BOOLEAN
    /\ wh_pc = "start"
    /\ wh_posts = 0
    /\ wh_response = "none"
    /\ wh_exit = "none"
    /\ CustomizeIdle
    /\ BuildApkIdle /\ FindIdle /\ SignIdle

NextUpload ==
    \/ UploadFindApk
    \/ UploadToS3
    \/ UploadExit
    \/ NotifyStart
    \/ NotifyWebhook

SpecUpload == InitUpload /\ [][NextUpload]_vars

(***************************************************************************)
(* find-apk.py.                                                            *)
(***************************************************************************)
S_test == <<"t","e","s","t">>
S_unaligned == <<"u","n","a","l","i","g","n","e","d">>
S_release == <<"r","e","l","e","a","s","e">>
S_dot_apk == <<".","a","p","k">>

EndsWith(s, suffix) ==
    Len(s) >= Len(suffix) /\ Drop(s, Len(s) - Len(suffix)) = suffix

\* search_patterns (lines 13-18): the directories that '**/DIR/**/*.apk'
\* asks for, <<>> for '**/*.apk'.
SearchDirs ==
    <<<<"b","u","i","l","d","/","o","u","t","p","u","t","s","/","a","p","k","/">>,
      <<"b","u","i","l","d","/","o","u","t","p","u","t","s","/","b","u","n","d","l","e","/">>,
      <<"b","u","i","l","d","/">>,
      <<>>>>

\* glob.glob(pattern, recursive=True), line 21: '**' stands for any number
\* of directories, none included.
GlobMatches(dir, path) ==
    /\ EndsWith(path, S_dot_apk)
    /\ dir = <<>> \/ StartsWith(path, dir) \/ Contains(path, <<"/">> \o dir)

\* Lines 23-26: test and unaligned APKs are left out.
IsExcluded(path) ==
    Contains(LowerStr(path), S_test) \/ Contains(LowerStr(path), S_unaligned)

\* The latest modification time of a set of files.
Newest(files) == CHOOSE f \in files : \A g \in files : g.mtime <= f.mtime

\* Line 31: sort(key=os.path.getmtime, reverse=True).
RECURSIVE NewestFirst(_)
NewestFirst(files) ==
    IF files = {} THEN <<>>
    ELSE <<Newest(files)>> \o NewestFirst(files \ {Newest(files)})

\* find_apk_files without the filter of lines 23-26.
find_apk_files_Unfiltered(files) ==
    NewestFirst({f \in files :
        \E i \in 1..Len(SearchDirs) : GlobMatches(SearchDirs[i], f.path)})

\* find_apk_files, lines 8-33.
find_apk_files(files) ==
    NewestFirst({f \in files :
        /\ \E i \in 1..Len(SearchDirs) : GlobMatches(SearchDirs[i], f.path)
        /\ ~IsExcluded(f.path)})

\* Lines 130-131.
IsSigned(f) == f.signed
IsRelease(f) == Contains(LowerStr(f.path), S_release)

\* main, lines 130-141: the first signed APK, else the first release APK,
\* else the first APK.
SelectedApk(found) ==
    IF SelectSeq(found, IsSigned) # <<>> THEN SelectSeq(found, IsSigned)[1].path
    ELSE IF SelectSeq(found, IsRelease) # <<>> THEN SelectSeq(found, IsRelease)[1].path
    ELSE found[1].path

\* os.path.basename (line 147).
Basename(path) ==
    LET slashes == {i \in 1..Len(path) : path[i] = "/"}
    IN  IF slashes = {} THEN path
        ELSE Drop(path, CHOOSE i \in slashes : \A j \in slashes : j <= i)

S_apk_path == <<"a","p","k","_","p","a","t","h">>
S_apk_filename == <<"a","p","k","_","f","i","l","e","n","a","m","e">>

\* main, lines 96-115: without an APK main returns 1, which exit() makes
\* the status of the process (line 152).
FindApkFiles ==
    /\ fa_pc = "start"
    /\ apk_files' = find_apk_files(fa_files)
    /\ IF apk_files' = <<>>
       THEN fa_pc' = "exited" /\ fa_exit' = 1
       ELSE fa_pc' = "select" /\ UNCHANGED fa_exit
    /\ UNCHANGED <<fa_files, fa_output_env, main_apk, fa_outputs>>
    /\ UNCHANGED <<customize_vars, build_apk_vars, upload_vars, webhook_vars, sign_vars>>

\* main, lines 117-142.
SelectApk ==
    /\ fa_pc = "select"
    /\ main_apk' = SelectedApk(apk_files)
    /\ fa_pc' = "write"
    /\ UNCHANGED <<fa_files, fa_output_env, apk_files, fa_outputs, fa_exit>>
    /\ UNCHANGED <<customize_vars, build_apk_vars, upload_vars, webhook_vars, sign_vars>>

\* main, lines 145-152: os.environ['GITHUB_OUTPUT'] raises KeyError when
\* the variable is not set, and the process ends with a traceback.
WriteOutputs ==
    /\ fa_pc = "write"
    /\ IF fa_output_env
       THEN /\ fa_outputs' = fa_outputs \o
                    <<[key |-> S_apk_path, value |-> main_apk],
                      [key |-> S_apk_filename, value |-> Basename(main_apk)]>>
            /\ fa_exit' = 0
       ELSE /\ fa_exit' = 1
            /\ UNCHANGED fa_outputs
    /\ fa_pc' = "exited"
    /\ UNCHANGED <<fa_files, fa_output_env, apk_files, main_apk>>
    /\ UNCHANGED <<customize_vars, build_apk_vars, upload_vars, webhook_vars, sign_vars>>

\* The files a build may leave behind, oldest first or newest first.
FA_release == <<"b","u","i","l","d","/","o","u","t","p","u","t","s","/","a","p","k","/","r","e","l","e","a","s","e","/","a","p","p","-","r","e","l","e","a","s","e",".","a","p","k">>
FA_debug == <<"b","u","i","l","d","/","o","u","t","p","u","t","s","/","a","p","k","/","d","e","b","u","g","/","a","p","p","-","d","e","b","u","g",".","a","p","k">>
FA_android_test == <<"b","u","i","l","d","/","o","u","t","p","u","t","s","/","a","p","k","/","a","n","d","r","o","i","d","T","e","s","t","/","a","p","p","-","d","e","b","u","g","-","a","n","d","r","o","i","d","T","e","s","t",".","a","p","k">>
FA_unaligned == <<"b","u","i","l","d","/","o","u","t","p","u","t","s","/","a","p","k","/","r","e","l","e","a","s","e","/","a","p","p","-","r","e","l","e","a","s","e","-","u","n","a","l","i","g","n","e","d",".","a","p","k">>
FA_old == <<"o","l","d","/","a","p","p",".","a","p","k">>
FA_json == <<"b","u","i","l","d","/","o","u","t","p","u","t","s","/","a","p","k","/","r","e","l","e","a","s","e","/","o","u","t","p","u","t",".","j","s","o","n">>

FileCatalog == <<FA_release, FA_debug, FA_android_test, FA_unaligned, FA_old, FA_json>>

\* The files of the catalog with the indexes PRESENT; those of SIGNED pass
\* apksigner verify; NEWEST_LAST tells the order of their modification.
FilesOfCatalog(present, signed, newest_last) ==
    {[path |-> FileCatalog[i],
      mtime |-> IF newest_last THEN i ELSE Len(FileCatalog) + 1 - i,
      signed |-> i \in signed] : i \in present}

InitFindApk ==
    /\ \E present \in SUBSET (1..Len(FileCatalog)) :
        \E signed \in SUBSET present, newest_last \in BOOLEAN :
            fa_files = FilesOfCatalog(present, signed, newest_last)
    /\ fa_output_env \in BOOLEAN
    /\ fa_pc = "start"
    /\ apk_files = <<>>
    /\ main_apk = <<>>
    /\ fa_outputs = <<>>
    /\ fa_exit = "none"
    /\ CustomizeIdle
    /\ BuildApkIdle /\ UploadIdle /\ WebhookIdle /\ SignIdle

NextFindApk ==
    \/ FindApkFiles
    \/ SelectApk
    \/ WriteOutputs

SpecFindApk == InitFindApk /\ [][NextFindApk]_vars

(***************************************************************************)
(* Signing: sign-apk.py, and sign_and_align_apk of build-apk.py.           *)
(***************************************************************************)
\* A command that was run, the file it was run on, the file it wrote and
\* whether it succeeded (run_command, sign-apk.py lines 8-17).
Command(c, on, to, succeeded) == [cmd |-> c, target |-> on, out |-> to, ok |-> succeeded]

\* An exception leaves sign_and_align_apk (sign-apk.py lines 129-131,
\* build-apk.py lines 149-151): sign-apk.py's main returns 1 (lines 140-142,
\* 145), build-apk.py's main calls sys.exit(1) (lines 231-233).
SignFailed ==
    /\ sg_pc' = "exited"
    /\ sg_exit' = 1

\* sign-apk.py lines 62-63, build-apk.py lines 110-111.
CheckKeystore ==
    /\ sg_pc = "keystore"
    /\ IF ~sg_keystore THEN SignFailed
       ELSE /\ sg_pc' = IF sg_script = "sign-apk" THEN "tools" ELSE "zipalign"
            /\ UNCHANGED sg_exit
    /\ UNCHANGED <<sg_script, sg_keystore, sg_tools, sg_apk, sg_log>>
    /\ UNCHANGED <<customize_vars, build_apk_vars, upload_vars, webhook_vars, find_vars>>

\* sign-apk.py line 66, find_android_tools (lines 19-56).
FindAndroidTools ==
    /\ sg_pc = "tools"
    /\ IF sg_tools # "found" THEN SignFailed
       ELSE sg_pc' = "find_apk" /\ UNCHANGED sg_exit
    /\ UNCHANGED <<sg_script, sg_keystore, sg_tools, sg_apk, sg_log>>
    /\ UNCHANGED <<customize_vars, build_apk_vars, upload_vars, webhook_vars, find_vars>>

\* sign-apk.py lines 69-82: the first search path with files, none of them
\* unaligned, gives the APK.
FindApkToSign ==
    /\ sg_pc = "find_apk"
    /\ IF sg_apk \notin {"debug", "apk-dir"} THEN SignFailed
       ELSE sg_pc' = "zipalign" /\ UNCHANGED sg_exit
    /\ UNCHANGED <<sg_script, sg_keystore, sg_tools, sg_apk, sg_log>>
    /\ UNCHANGED <<customize_vars, build_apk_vars, upload_vars, webhook_vars, find_vars>>

\* sign-apk.py lines 86-94, build-apk.py lines 113-120: zipalign writes the
\* aligned APK.  build-apk.py aligns apk/debug/app-debug.apk, whether or
\* not it is there.
Zipalign ==
    /\ sg_pc = "zipalign"
    /\ \E succeeded \in BOOLEAN :
        /\ succeeded => sg_apk \in {"debug", "unaligned"} \/ sg_script = "sign-apk"
        /\ sg_log' = Append(sg_log, Command("zipalign", "apk", "aligned", succeeded))
        /\ IF succeeded THEN sg_pc' = "sign" /\ UNCHANGED sg_exit ELSE SignFailed
    /\ UNCHANGED <<sg_script, sg_keystore, sg_tools, sg_apk>>
    /\ UNCHANGED <<customize_vars, build_apk_vars, upload_vars, webhook_vars, find_vars>>

\* The file apksigner sign leaves the signed APK in: the --out file of
\* sign-apk.py (line 106), the aligned file itself in build-apk.py.
SignedFile == IF sg_script = "sign-apk" THEN "signed" ELSE "aligned"

\* sign-apk.py lines 96-109, build-apk.py lines 122-133.
ApksignerSign ==
    /\ sg_pc = "sign"
    /\ \E succeeded \in BOOLEAN :
        /\ sg_log' = Append(sg_log, Command("sign", "aligned", SignedFile, succeeded))
        /\ IF succeeded THEN sg_pc' = "verify" /\ UNCHANGED sg_exit ELSE SignFailed
    /\ UNCHANGED <<sg_script, sg_keystore, sg_tools, sg_apk>>
    /\ UNCHANGED <<customize_vars, build_apk_vars, upload_vars, webhook_vars, find_vars>>

\* ApksignerVerify going on whatever the verification says.
ApksignerVerify_Ignored ==
    /\ sg_pc = "verify"
    /\ \E succeeded \in BOOLEAN :
        sg_log' = Append(sg_log, Command("verify", SignedFile, "none", succeeded))
    /\ sg_pc' = "finish"
    /\ UNCHANGED <<sg_script, sg_keystore, sg_tools, sg_apk, sg_exit>>
    /\ UNCHANGED <<customize_vars, build_apk_vars, upload_vars, webhook_vars, find_vars>>

\* sign-apk.py lines 111-118, build-apk.py lines 135-142.
ApksignerVerify ==
    /\ sg_pc = "verify"
    /\ \E succeeded \in BOOLEAN :
        /\ sg_log' = Append(sg_log, Command("verify", SignedFile, "none", succeeded))
        /\ IF succeeded THEN sg_pc' = "finish" /\ UNCHANGED sg_exit ELSE SignFailed
    /\ UNCHANGED <<sg_script, sg_keystore, sg_tools, sg_apk>>
    /\ UNCHANGED <<customize_vars, build_apk_vars, upload_vars, webhook_vars, find_vars>>

\* sign-apk.py lines 120-127 and 137-139: the aligned file is removed and
\* main returns 0.  build-apk.py line 145: the aligned file is renamed to
\* app-debug-signed.apk.
FinishSigning ==
    /\ sg_pc = "finish"
    /\ IF sg_script = "sign-apk"
       THEN /\ sg_pc' = "exited"
            /\ sg_exit' = 0
            /\ UNCHANGED sg_log
       ELSE \E succeeded \in BOOLEAN :
            /\ sg_log' = Append(sg_log, Command("mv", "aligned", "signed", succeeded))
            /\ IF succeeded THEN sg_pc' = "installable" /\ UNCHANGED sg_exit
               ELSE SignFailed
    /\ UNCHANGED <<sg_script, sg_keystore, sg_tools, sg_apk>>
    /\ UNCHANGED <<customize_vars, build_apk_vars, upload_vars, webhook_vars, find_vars>>

\* build-apk.py main, lines 224-233, verify_apk_installable (lines 153-174):
\* the signed APK is verified once more and main ends.
VerifyInstallable ==
    /\ sg_pc = "installable"
    /\ \E succeeded \in BOOLEAN :
        /\ sg_log' = Append(sg_log, Command("verify-certs", "signed", "none", succeeded))
        /\ IF succeeded THEN sg_pc' = "exited" /\ sg_exit' = 0 ELSE SignFailed
    /\ UNCHANGED <<sg_script, sg_keystore, sg_tools, sg_apk>>
    /\ UNCHANGED <<customize_vars, build_apk_vars, upload_vars, webhook_vars, find_vars>>

SigningScripts == {"sign-apk", "build-apk"}

\* find_android_tools (sign-apk.py lines 19-56): the tools, no SDK
\* (line 35), or an SDK without build-tools (line 51).
ToolStates == {"found", "no-sdk", "no-build-tools"}

\* Where the built APK is: in apk/debug, in apk, in apk/debug together with
\* an unaligned APK, or nowhere.
ApkPlaces == {"debug", "apk-dir", "unaligned", "none"}

InitSign ==
    /\ sg_script \in SigningScripts
    /\ sg_keystore \in BOOLEAN
    /\ sg_tools \in ToolStates
    /\ sg_apk \in ApkPlaces
    /\ sg_pc = "keystore"
    /\ sg_log = <<>>
    /\ sg_exit = "none"
    /\ CustomizeIdle
    /\ BuildApkIdle /\ UploadIdle /\ WebhookIdle /\ FindIdle

NextSign ==
    \/ CheckKeystore
    \/ FindAndroidTools
    \/ FindApkToSign
    \/ Zipalign
    \/ ApksignerSign
    \/ ApksignerVerify
    \/ FinishSigning
    \/ VerifyInstallable

SpecSign == InitSign /\ [][NextSign]_vars

(***************************************************************************)
(* The identifier derivation alone, over the enumerated host names.        *)
(***************************************************************************)
InitDerive ==
    /\ host_name \in Hosts
    /\ app_name \in AppNames
    /\ launch_url = <<"/">>
    /\ icon_base64 = "absent"
    /\ icon_choice = "custom"
    /\ missing_env = {}
    /\ publish_release = FALSE
    /\ app_dir = FALSE
    /\ mipmaps = AllBuckets(B_absent)
    /\ cloned = FALSE
    /\ outcome = "none"
    /\ attempted = {}
    /\ img = "none"
    /\ downloads = 0
    /\ released = 0
    /\ res_before = <<>>
    /\ foreground = "none"
    /\ adaptive_config = FALSE
    /\ package_name = <<>>
    /\ pc = "derive"
    /\ build_gradle = NoFile
    /\ manifest = NoFile
    /\ strings_xml = NoFile
    /\ java_dir = [exists |-> FALSE, files |-> <<>>]
    /\ colors_xml = NoFile
    /\ res_dir = FALSE
    /\ written = {}
    /\ run = 1
    /\ first_run = <<>>
    /\ CollabIdle

NextDerive == DerivePackage

SpecDerive == InitDerive /\ [][NextDerive]_vars

(***************************************************************************)
(* Properties of generate_package_name.                                    *)
(***************************************************************************)
Derived == "derive" \in attempted

\* The values lines 32-46 compute for the current host name.
CleanedHost == CleanHost(host_name)
Labels == HostParts(CleanedHost)
Segments == CleanSegments(RawPackageName(CleanedHost))

\* A segment matching [a-z][a-z0-9_]*
IsValidSegment(seg) ==
    /\ seg # <<>>
    /\ seg[1] \in LowerChars
    /\ \A i \in 1..Len(seg) : seg[i] \in LowerChars \cup DigitChars \cup {"_"}

\* An identifier matching [a-z][a-z0-9_]*(\.[a-z][a-z0-9_]*)+
IsValidIdentifier(s) ==
    LET segs == Split(s, ".")
    IN  /\ Len(segs) >= 2
        /\ \A i \in 1..Len(segs) : IsValidSegment(segs[i])

\* C1: for every host name, generate_package_name returns an identifier of
\* at least 2 dot-separated segments, every segment matching [a-z][a-z0-9_]*.
C1_ValidIdentifier == Derived => IsValidIdentifier(package_name)

P_com_example == <<"c","o","m",".","e","x","a","m","p","l","e">>
P_com_localhost == <<"c","o","m",".","l","o","c","a","l","h","o","s","t">>

ScenarioResults ==
    /\ host_name = H_scenario_url => package_name = P_com_example
    /\ host_name = H_localhost => package_name = P_com_localhost

\* C2 as stated: for a host with 2 or more non-empty labels the result is the
\* labels reversed and joined by '.', for a host with exactly one label it is
\* 'com.' followed by the label, whatever the labels are made of.
C2_ReversedLabels ==
    Derived =>
        /\ Len(Labels) >= 2 => package_name = Join(Reverse(Labels), <<".">>)
        /\ Len(Labels) = 1 => package_name = S_com_dot \o Labels[1]
        /\ ScenarioResults

AllLabelsValid == \A i \in 1..Len(Labels) : IsValidSegment(Labels[i])

\* C2 as amended: when every label that survives the host cleaning already
\* matches [a-z][a-z0-9_]*, 2 or more labels give the labels reversed and
\* joined by '.', exactly one label gives 'com.' followed by it;
\* 'https://www.example.com/app?x=1' gives 'com.example' and 'localhost'
\* gives 'com.localhost'.
C2_ReversedValidLabels ==
    Derived =>
        /\ (Len(Labels) >= 2 /\ AllLabelsValid) =>
                package_name = Join(Reverse(Labels), <<".">>)
        /\ (Len(Labels) = 1 /\ AllLabelsValid) =>
                package_name = S_com_dot \o Labels[1]
        /\ ScenarioResults

\* A derivation from two or more valid labels whose order matters.
C2_Witness ==
    /\ Derived
    /\ Len(Labels) >= 2
    /\ AllLabelsValid
    /\ Labels[1] # Labels[Len(Labels)]
    /\ package_name = Join(Reverse(Labels), <<".">>)

\* The bare host of the specification: a scheme removed only as a prefix,
\* then 'www.' removed only as a prefix, then the text before the first
\* '/', '?' or ':'.
StripPrefix(s, p) == IF StartsWith(s, p) THEN Drop(s, Len(p)) ELSE s

LeadingOnlyBareHost(host) ==
    LET noscheme == IF StartsWith(host, S_https) THEN Drop(host, Len(S_https))
                    ELSE StripPrefix(host, S_http)
    IN  BeforeAny(StripPrefix(noscheme, S_www), {"/", "?", ":"})

\* C3: only a scheme prefix and only a leading 'www.' are removed before the
\* host is truncated at the first '/', '?' or ':'; a 'www.' or a scheme
\* string elsewhere in the host stays and contributes to the identifier.
C3_OnlyLeadingStripped ==
    Derived =>
        package_name =
            LowerStr(Join(WithDefaultSegments(CleanSegments(
                RawPackageName(LeadingOnlyBareHost(host_name)))), <<".">>))

P_com_webapp == <<"c","o","m",".","w","e","b","a","p","p">>

\* C4 as stated: whenever fewer than 2 valid segments are left (no label at
\* all, or fewer than 2 segments after cleaning) the result is exactly
\* 'com.webapp.generated'.
C4_FallbackDefault ==
    (Derived /\ (Labels = <<>> \/ Len(Segments) < 2)) =>
        package_name = S_default_package

\* C4 as amended: a host with no label at all gives 'com.webapp.generated';
\* a host with labels of which fewer than 2 segments survive the cleaning
\* gives 'com.webapp' followed by the surviving segment, if any, lower-cased
\* ('-.-' gives 'com.webapp', '-' gives 'com.webapp.com').
C4_FallbackPrefix ==
    Derived =>
        /\ Labels = <<>> => package_name = S_default_package
        /\ (Labels # <<>> /\ Segments = <<>>) => package_name = P_com_webapp
        /\ (Labels # <<>> /\ Len(Segments) = 1) =>
                package_name = P_com_webapp \o <<".">> \o LowerStr(Segments[1])
        /\ host_name = <<"-", ".", "-">> => package_name = P_com_webapp
        /\ host_name = <<"-">> => package_name = P_com_webapp \o <<".">> \o S_com

\* A host with labels that all clean to nothing.
C4_Witness ==
    /\ Derived
    /\ Labels # <<>>
    /\ Len(Segments) < 2
    /\ package_name # S_default_package

(***************************************************************************)
(* Properties of the patch steps.                                          *)
(***************************************************************************)
\* C5: patching a project a second time with the same configuration leaves
\* every patched file as the first run left it.
C5_Idempotent == (pc = "done" /\ run >= 2) => ProjectFiles = first_run

\* KW written with the value v in one of the supported syntaxes.
GradleHasValue(text, kw, v) ==
    \E sep \in GradleSeparators, q \in QuoteChars :
        Contains(text, kw \o sep \o <<q>> \o v \o <<q>>)

\* <string name="NAME">VALUE</string>
StringEntry(name, value) == StringOpen(name) \o value \o S_string_close

\* C6: a field that should exist and is absent from its file is inserted by
\* the patch: after update_twa_manifest_in_gradle the file has the namespace
\* and the applicationId of the derived identifier, after update_strings_xml
\* it has the app_name entry with the configured name and a launch_url entry.
C6_AbsentFieldInserted ==
    [][/\ (pc = "gradle" /\ build_gradle.exists
                /\ ~Contains(build_gradle.text, S_namespace)) =>
            GradleHasValue(build_gradle'.text, S_namespace, package_name)
       /\ (pc = "gradle" /\ build_gradle.exists
                /\ ~Contains(build_gradle.text, S_applicationId)) =>
            GradleHasValue(build_gradle'.text, S_applicationId, package_name)
       /\ (pc = "strings" /\ strings_xml.exists
                /\ ~Contains(strings_xml.text, StringOpen(S_app_name))) =>
            Contains(strings_xml'.text, StringEntry(S_app_name, app_name))
       /\ (pc = "strings" /\ strings_xml.exists
                /\ ~Contains(strings_xml.text, StringOpen(S_launch_url))) =>
            Contains(strings_xml'.text, StringOpen(S_launch_url))]_vars

\* A package attribute in either quote style.
HasPackageAttribute(text) ==
    \E q \in QuoteChars : Contains(text, <<"p","a","c","k","a","g","e","=">> \o <<q>>)

GradlePatchDone == "gradle" \in attempted
ManifestPatchDone == "manifest" \in attempted
StringsPatchDone == "strings" \in attempted

\* C7: a namespace or applicationId present in the build descriptor, with
\* single or double quotes and in the `key value` or the `key = value` form,
\* carries the derived identifier after the patch, and a manifest package
\* attribute with single or double quotes is recognized (and so removed).
C7_AllSyntaxesRecognized ==
    /\ (GradlePatchDone /\ build_gradle.exists
            /\ Contains(build_gradle.text, S_namespace)) =>
        GradleHasValue(build_gradle.text, S_namespace, package_name)
    /\ (GradlePatchDone /\ build_gradle.exists
            /\ Contains(build_gradle.text, S_applicationId)) =>
        GradleHasValue(build_gradle.text, S_applicationId, package_name)
    /\ (ManifestPatchDone /\ manifest.exists) => ~HasPackageAttribute(manifest.text)

\* C8: once update_manifest_remove_package has succeeded the manifest root
\* has no package attribute, no later step or run adds one, and a manifest
\* that had none is not written.
C8_PackageAttributeRemoved ==
    /\ []((ManifestPatchDone /\ manifest.exists) => ~HasPackageAttribute(manifest.text))
    /\ [][/\ ~HasPackageAttribute(manifest.text) => ~HasPackageAttribute(manifest'.text)
          /\ (pc = "manifest" /\ ~HasPackageAttribute(manifest.text)) =>
                "manifest" \notin written']_vars

\* The host of HOST_NAME: its scheme prefix removed and the rest cut at the
\* first '/', '?' or ':'.
HostOnly(host) ==
    LET noscheme == IF StartsWith(host, S_https) THEN Drop(host, Len(S_https))
                    ELSE StripPrefix(host, S_http)
    IN  BeforeAny(noscheme, {"/", "?", ":"})

IsAbsoluteUrl(url) == StartsWith(url, S_https) \/ StartsWith(url, S_http)

\* The launch URL the specification asks for.
ExpectedLaunchUrl(host, launch) ==
    IF IsAbsoluteUrl(launch) THEN launch
    ELSE S_https \o HostOnly(host)
            \o (IF StartsWith(launch, <<"/">>) THEN launch ELSE <<"/">> \o launch)

\* C9: the launch_url written by update_strings_xml is the configured URL
\* when it is absolute, and otherwise https:// followed by the cleaned host
\* (scheme, path, query and port of HOST_NAME stripped) and the launch path.
C9_LaunchUrlResolved ==
    (StringsPatchDone /\ strings_xml.exists
        /\ Contains(strings_xml.text, StringOpen(S_launch_url))) =>
        Contains(strings_xml.text,
                 StringEntry(S_launch_url, ExpectedLaunchUrl(host_name, launch_url)))

(***************************************************************************)
(* Properties of build-apk.py's colour step.                               *)
(***************************************************************************)
\* A colour with its leading '#'.
WithHash(c) == IF StartsWith(c, <<"#">>) THEN c ELSE <<"#">> \o c

\* The text stored for the colour NAME, <<>> when colors.xml has none.
StoredColor(name) ==
    LET at == {i \in 1..Len(ba_colors.colors) : ba_colors.colors[i].name = name}
    IN  IF at = {} THEN <<>> ELSE ba_colors.colors[MinOf(at)].text

HasColor(name) == \E i \in 1..Len(ba_colors.colors) : ba_colors.colors[i].name = name

\* C10: every configured colour is stored with a leading '#': '171717' is
\* stored as '#171717', a colour that starts with '#' is stored unchanged.
C10_ColorsNormalized ==
    ba_pc = "activity" =>
        /\ HasColor("colorPrimary") => StoredColor("colorPrimary") = WithHash(theme_color)
        /\ HasColor("colorPrimaryDark") =>
                StoredColor("colorPrimaryDark") = WithHash(theme_color_dark)
        /\ HasColor("backgroundColor") =>
                StoredColor("backgroundColor") = WithHash(background_color)

(***************************************************************************)
(* Properties of main and of the icon stage.                               *)
(***************************************************************************)
\* main has returned.
Returned == pc \in {"done", "failed"}

\* C11: when AndroidManifest.xml is not found, main ends in Failed with a
\* non-zero outcome and attempts no further stage: no string patch, no
\* source rewrite, no icon stage.
C11_MissingManifestFatal ==
    ("manifest" \in attempted /\ ~manifest.exists) =>
        /\ pc = "failed"
        /\ outcome = 1
        /\ attempted \cap {"strings", "java", "icons"} = {}

\* C12: when HOST_NAME or APP_NAME is not set, main returns a non-zero
\* outcome, and before it returns no project file is created, modified or
\* deleted and no template is cloned.
C12_MissingInputAborts ==
    /\ []((RequiredEnv \cap missing_env # {} /\ "config" \in attempted) =>
            (pc = "failed" /\ outcome = 1 /\ ~cloned /\ written = {}))
    /\ [][RequiredEnv \cap missing_env # {} =>
            UNCHANGED <<ProjectFiles, res_dir, app_dir, cloned, mipmaps,
                        foreground, adaptive_config>>]_vars

\* A run without HOST_NAME (or APP_NAME) that has returned.
C12_Witness ==
    /\ RequiredEnv \cap missing_env # {}
    /\ pc = "failed"
    /\ outcome = 1
    /\ attempted = {"config"}

\* An optional target of the patch steps is missing from the project.
OptionalMissing == ~build_gradle.exists \/ ~strings_xml.exists \/ ~java_dir.exists

\* C13: when app/build.gradle, values/strings.xml or the java directory is
\* missing, its patch step changes nothing, every later stage still runs and
\* main finishes with outcome 0.
C13_OptionalMissingContinues ==
    /\ []((Returned /\ "gradle" \in attempted /\ OptionalMissing) =>
            /\ outcome = 0
            /\ {"manifest", "strings", "java", "icons", "publish"} \subseteq attempted)
    /\ [][/\ (pc = "gradle" /\ ~build_gradle.exists) => UNCHANGED ProjectFiles
          /\ (pc = "strings" /\ ~strings_xml.exists) => UNCHANGED ProjectFiles
          /\ (pc = "java" /\ ~java_dir.exists) => UNCHANGED ProjectFiles]_vars

\* main failed in set_launcher_icons.
FailedInIconStage == pc = "failed" /\ "icons" \in attempted /\ "publish" \notin attempted

\* C14: whatever the state of the resources directory and whatever the
\* decode, fetch and write results, set_launcher_icons returns normally:
\* main never ends in Failed because of the icon stage.
C14_IconStageNeverFails == ~FailedInIconStage

\* set_launcher_icons has returned without a decoded image (line 338).
NoImage == "catalog" \in attempted /\ img = "none"

\* C15: when neither the inline image nor the catalog yields a decoded
\* image, set_launcher_icons leaves every file of the resources directory,
\* the existing launcher icons included, as it was before the call, and
\* main still ends in Done.
C15_NoImageNoChange ==
    NoImage =>
        /\ mipmaps = res_before
        /\ foreground = "none" /\ ~adaptive_config
        /\ Returned => (pc = "done" /\ outcome = 0)

\* The raster icons written by this run, in all buckets.
EmittedIcons ==
    UNION {{f \in mipmaps[i].files : f.stamp # "stale"} : i \in 1..Len(mipmaps)}

\* C16: the inline image is decoded first and the catalog image is fetched
\* only when the inline image is absent or does not decode; when the inline
\* image decodes, the raster icons are made from it and no catalog raster
\* image is downloaded.
C16_InlineBeforeCatalog ==
    /\ [](/\ downloads > 0 => ("inline" \in attempted /\ icon_base64 # "valid")
          /\ icon_base64 = "valid" =>
                (downloads = 0 /\ \A f \in EmittedIcons : f.stamp = "inline"))
    /\ [][downloads' # downloads => (pc = "catalog" /\ img = "none")]_vars

\* The inline image decoded, the choice is a catalog key, and the icons
\* were written.
C16_Witness ==
    /\ icon_base64 = "valid"
    /\ icon_choice \in CatalogKeys
    /\ "emit" \in attempted
    /\ EmittedIcons # {}

\* The launcher icons of a bucket that predate the run.
StaleIcons(b) == {f \in b.files : f.stamp = "stale" /\ IsLauncherFile(f.name)}

\* C17: the existing launcher icons of every existing bucket directory are
\* deleted before the first new icon is written, so that after
\* set_launcher_icons no bucket directory holds a launcher icon (standard,
\* round or foreground remnant) that predates the run.
C17_CleanupBeforeEmission ==
    /\ []((res_dir /\ attempted \cap {"catalog", "emit"} # {}) =>
            \A i \in 1..Len(mipmaps) : StaleIcons(mipmaps[i]) = {})
    /\ [][(\E i \in 1..Len(mipmaps) :
                \E f \in mipmaps'[i].files :
                    f.stamp # "stale" /\ f \notin mipmaps[i].files) =>
            (pc = "emit" /\ "icons" \in attempted)]_vars

(***************************************************************************)
(* Properties of the upload and webhook scripts.                           *)
(***************************************************************************)
\* C18: upload-apk.py and notify-web hook.py make at most one attempt per
\* run, and a failed upload is reported: when no APK is found or the upload
\* raises, the upload-apk.py process ends with a non-zero status.
C18_SingleAttemptExplicitFailure ==
    /\ up_uploads <= 1
    /\ wh_posts <= 1
    /\ (up_pc = "exited" /\ ~up_output) => up_exit # 0

(***************************************************************************)
(* Properties of find-apk.py.                                              *)
(***************************************************************************)
\* The files that match one of the search patterns.
MatchingApks ==
    {f \in fa_files : \E i \in 1..Len(SearchDirs) : GlobMatches(SearchDirs[i], f.path)}

\* The matching files that are neither test nor unaligned APKs.
FoundApks == {f \in MatchingApks : ~IsExcluded(f.path)}

Searched == fa_pc # "start"
Selected == fa_pc \in {"write", "exited"} /\ apk_files # <<>>

\* The file of CANDIDATES that main_apk names is the preferred one: signed
\* when one is, else a release APK when there is one, else the newest; and
\* the newest of its kind.
PreferredAmong(candidates) ==
    \E sel \in candidates :
        /\ sel.path = main_apk
        /\ LET signed == {f \in candidates : IsSigned(f)}
               release == {f \in candidates : IsRelease(f)}
           IN  IF signed # {} THEN sel = Newest(signed)
               ELSE IF release # {} THEN sel = Newest(release)
               ELSE sel = Newest(candidates)

\* What is written names the selected APK, once.
OutputsNameSelection ==
    fa_outputs # <<>> =>
        /\ Len(fa_outputs) = 2
        /\ fa_outputs[1] = [key |-> S_apk_path, value |-> main_apk]
        /\ fa_outputs[2].key = S_apk_filename

\* C19: main returns 1 and writes no output when no APK matches a search
\* pattern; otherwise it selects exactly one APK of those that match,
\* a signed one first, then one whose path contains 'release', then the
\* most recently modified.
C19_SelectsAmongMatches ==
    /\ (Searched /\ MatchingApks = {}) =>
            (fa_pc = "exited" /\ fa_exit = 1 /\ fa_outputs = <<>>)
    /\ (fa_pc \in {"write", "exited"} /\ MatchingApks # {}) =>
            PreferredAmong(MatchingApks)
    /\ OutputsNameSelection

\* C19, as the code has it: the APKs whose path contains 'test' or
\* 'unaligned' do not count.  main returns 1 and writes no output when no
\* other APK matches a search pattern; otherwise it selects exactly one of
\* the others, a signed one first, then one whose path contains 'release',
\* then the most recently modified.
C19_SelectsAmongFound ==
    /\ (Searched /\ FoundApks = {}) =>
            (fa_pc = "exited" /\ fa_exit = 1 /\ fa_outputs = <<>> /\ main_apk = <<>>)
    /\ (fa_pc \in {"write", "exited"} /\ FoundApks # {}) =>
            PreferredAmong(FoundApks)
    /\ OutputsNameSelection

\* A test APK newer than every other file was passed over, and the APK
\* selected is not the newest of those found.
C19_Witness ==
    /\ fa_pc = "exited"
    /\ fa_exit = 0
    /\ Newest(fa_files).path = FA_android_test
    /\ Len(apk_files) >= 2
    /\ main_apk # apk_files[1].path
    /\ fa_outputs # <<>>

(***************************************************************************)
(* Properties of the signing code.                                         *)
(***************************************************************************)
\* The commands of the signing sequence, in the order the claim gives.
SigningOrder == <<"zipalign", "sign", "verify">>

\* The positions of sg_log at which CMD was run.
RunsOf(cmd) == {i \in 1..Len(sg_log) : sg_log[i].cmd = cmd}

\* C20: zipalign, apksigner sign and apksigner verify run in that order;
\* success is reported only after verify succeeded on the signed file; with
\* the keystore missing or one of the three failing, no later step runs and
\* the outcome is non-zero.
C20_SignSequence ==
    /\ \A i \in 1..Len(sg_log) : i <= Len(SigningOrder) => sg_log[i].cmd = SigningOrder[i]
    /\ \A i \in 1..Len(sg_log) : ~sg_log[i].ok => (i = Len(sg_log) /\ sg_pc = "exited")
    /\ ~sg_keystore => sg_log = <<>>
    /\ (sg_pc = "exited" /\ sg_exit = 0) =>
            /\ RunsOf("sign") = {2} /\ RunsOf("verify") = {3}
            /\ sg_log[3].ok
            /\ sg_log[3].target = sg_log[2].out
    /\ (sg_pc = "exited" /\ (~sg_keystore \/ \E i \in 1..Len(sg_log) : ~sg_log[i].ok)) =>
            sg_exit = 1

\* sign-apk.py has reported success, and so has build-apk.py.
C20_Witness ==
    /\ sg_pc = "exited"
    /\ sg_exit = 0
    /\ sg_script = "sign-apk"
    /\ Len(sg_log) = 3


(***************************************************************************)
(* The order of main's stages.                                             *)
(***************************************************************************)
\* The statements of main in the order of the code (lines 392-444).
StatementOrder ==
    <<"config", "locate", "derive", "gradle", "manifest", "strings", "java",
      "icons", "inline", "catalog", "emit", "publish", "done">>

StatementRank(p) == CHOOSE i \in 1..Len(StatementOrder) : StatementOrder[i] = p

PatchStatements == {"gradle", "manifest", "strings", "java"}

IconStatements == {"icons", "inline", "catalog", "emit"}

\* Control moves forward in the order of the statements or to Failed, and
\* not at all once main has returned.
MovesForward ==
    /\ (pc' # pc) => ~Returned
    /\ (pc' # pc) => (pc' = "failed" \/ StatementRank(pc') > StatementRank(pc))
    /\ Returned => (pc' = pc /\ outcome' = outcome)

\* What has run so far precedes the statement control is at, and began
\* with the configuration and the project location.
RanInOrder ==
    \A s \in attempted :
        /\ (pc # "failed") => StatementRank(s) < StatementRank(pc)
        /\ (s # "config") => "config" \in attempted
        /\ (s \notin {"config", "locate"}) => "locate" \in attempted

\* The outcome is that of the terminal state, and there is none before it.
OneOutcome ==
    IF Returned THEN outcome = (IF pc = "done" THEN 0 ELSE 1) ELSE outcome = "none"

RECURSIVE BlankQuotedField(_, _)
BlankQuotedField(s, kw) ==
    LET at == {i \in 1..Len(s) :
                  s[i] = kw[1] /\ QuotedFieldMatch(Drop(s, i - 1), kw) > 0}
    IN  IF at = {} THEN s
        ELSE LET i == MinOf(at)
                 n == QuotedFieldMatch(Drop(s, i - 1), kw)
                 ws == LeadingSpaces(Drop(s, i - 1 + Len(kw)))
             IN  SubSeq(s, 1, i - 1 + Len(kw) + ws + 1) \o <<s[i - 1 + n]>>
                     \o BlankQuotedField(Drop(s, i - 1 + n), kw)

\* build.gradle without the values of namespace and applicationId.
GradleFrame(text) ==
    BlankQuotedField(BlankQuotedField(text, S_namespace), S_applicationId)

\* The manifest after the start tag of its root element.
AfterRootTag(text) == Drop(text, IndexOfAny(text, {">"}))

\* strings.xml without the text of the app_name and launch_url entries.
StringsFrame(text) ==
    SubStringEntry(SubStringEntry(text, S_app_name, <<>>), S_launch_url, <<>>)

GradleFrameKept ==
    (pc = "gradle" /\ build_gradle.exists) =>
        GradleFrame(build_gradle'.text) = GradleFrame(build_gradle.text)

ManifestFrameKept ==
    (pc = "manifest" /\ manifest.exists) =>
        AfterRootTag(manifest'.text) = AfterRootTag(manifest.text)

StringsFrameKept ==
    (pc = "strings" /\ strings_xml.exists) =>
        StringsFrame(strings_xml'.text) = StringsFrame(strings_xml.text)

\* C22: each patch step changes only the values of its fields:
\* update_twa_manifest_in_gradle leaves build.gradle as it was but for the
\* values of namespace and applicationId, update_manifest_remove_package
\* leaves every element after the root's start tag as it was, and
\* update_strings_xml leaves strings.xml as it was but for the text of the
\* app_name and launch_url entries.
C22_OnlyRecognizedFieldsChange ==
    [][GradleFrameKept /\ ManifestFrameKept /\ StringsFrameKept]_vars

=============================================================================
